---- MODULE Spec2Model ----
(***************************************************************************)
(* A model of the DealSpy price-discovery service.                         *)
(*                                                                         *)
(*   Spec       the offer discovery pipeline, preview_lowest_by_name       *)
(*              (app/services/preview_search.py) with its collaborators    *)
(*   SpecPrice  the price parser (app/services/price_utils.py) applied to  *)
(*              every value of a bounded input set                         *)
(*                                                                         *)
(* Text is modelled as a sequence of tokens: a price string is a sequence  *)
(* of characters (the currency words INR and Rs are one token each), a     *)
(* query or a product name is a sequence of words separated by single      *)
(* blanks.  A float is a record [k, v]: k = "num" with v the value in      *)
(* units of 1/Unit, or k = "nan" / "inf".                                  *)
(***************************************************************************)
EXTENDS Integers, Sequences, FiniteSets, TLC

\* ------------------------------------------------------------------ bounds

\* Longest price string enumerated by SpecPrice (in tokens).
MaxLen == 3

\* Longest domain list passed to, or configured for, preview_lowest_by_name.
MaxDomains == 2

\* Longest product name (in words) the guards are called on alone.
MaxWords == 3

\* Longest URL path (in segments) is_probable_pdp is called on alone.
MaxSegs == 2

\* Most anchors of a page find_pdp_from_search_html is called on alone.
MaxAnchors == 2
MaxProducts == 2
MaxRuns == 2
MaxOffers == 3

\* ------------------------------------------------------------- sequences

Range(s) == { s[i] : i \in 1..Len(s) }

RECURSIVE SeqsUpTo(_, _)
\* All sequences over S of length at most n.
SeqsUpTo(S, n) ==
    IF n = 0 THEN { <<>> }
    ELSE LET shorter == SeqsUpTo(S, n - 1)
         IN  shorter \cup { Append(s, x) : s \in shorter, x \in S }

RECURSIVE Pow10(_)
Pow10(n) == IF n = 0 THEN 1 ELSE 10 * Pow10(n - 1)

\* ---------------------------------------------------------------- floats

\* One unit of the fixed-point representation of a finite float.
Unit == Pow10(MaxLen)

Num(n)  == [k |-> "num", v |-> n * Unit]
NaN     == [k |-> "nan", v |-> 0]
PosInf  == [k |-> "inf", v |-> 0]
\* Python's None as the result of a parser, and an exception leaving it.
None    == [k |-> "none", v |-> 0]
Raised  == [k |-> "raise", v |-> 0]

IsFloat(x) == x.k \in {"num", "nan", "inf"}
IsFinite(x) == x.k = "num"

\* a < b on Python floats: every comparison with NaN is False.
FLt(a, b) ==
    CASE a.k = "nan" \/ b.k = "nan" -> FALSE
      [] a.k = "inf"                -> FALSE
      [] b.k = "inf"                -> TRUE
      [] OTHER                      -> a.v < b.v

\* a >= b on Python floats.
FGe(a, b) ==
    CASE a.k = "nan" \/ b.k = "nan" -> FALSE
      [] a.k = "inf"                -> TRUE
      [] b.k = "inf"                -> FALSE
      [] OTHER                      -> a.v >= b.v

\* ------------------------------------------------------- Python values
\* The values a raw price can be: None, an int (k = "big": an int beyond the
\* range of a float), a float, or a string (a sequence of characters).

PyNone      == [t |-> "none",  k |-> "none", n |-> 0, s |-> <<>>]
PyInt(n)    == [t |-> "int",   k |-> "num",  n |-> n, s |-> <<>>]
PyBigInt    == [t |-> "int",   k |-> "big",  n |-> 0, s |-> <<>>]
PyFloat(f)  == [t |-> "float", k |-> f.k,    n |-> f.v, s |-> <<>>]
PyStr(s)    == [t |-> "str",   k |-> "none", n |-> 0, s |-> s]

\* Python truthiness of a value: None, 0, 0.0 and "" are falsy (NaN is truthy).
Truthy(x) ==
    CASE x.t = "none"  -> FALSE
      [] x.t = "int"   -> x.k = "big" \/ x.n # 0
      [] x.t = "float" -> ~(x.k = "num" /\ x.n = 0)
      [] OTHER         -> x.s # <<>>

\* ------------------------------------------------------------ price_utils

Digits == {"0", "1", "2", "3", "4", "5", "6", "7", "8", "9"}

IsDigit(c) == c \in Digits

DigitVal(c) ==
    CASE c = "0" -> 0 [] c = "1" -> 1 [] c = "2" -> 2 [] c = "3" -> 3
      [] c = "4" -> 4 [] c = "5" -> 5 [] c = "6" -> 6 [] c = "7" -> 7
      [] c = "8" -> 8 [] OTHER -> 9

RECURSIVE IntOf(_)
\* The integer a sequence of digit characters denotes (0 for none).
IntOf(ds) ==
    IF ds = <<>> THEN 0
    ELSE 10 * IntOf(SubSeq(ds, 1, Len(ds) - 1)) + DigitVal(ds[Len(ds)])

\* The currency markers of PRICE_RX: "INR" stands for the rupee sign and INR,
\* "Rs" for Rs, which alone may be followed by a dot.
IsCurrency(c) == c \in {"INR", "Rs"}

RECURSIVE SkipSpaces(_, _)
\* \s* from position i: the first position that holds no blank.
SkipSpaces(s, i) ==
    IF i <= Len(s) /\ s[i] = " " THEN SkipSpaces(s, i + 1) ELSE i

RECURSIVE GroupEnd(_, _)
\* [0-9,]* from position i, greedy: the last position of the run.
GroupEnd(s, i) ==
    IF i + 1 <= Len(s) /\ (IsDigit(s[i + 1]) \/ s[i + 1] = ",")
    THEN GroupEnd(s, i + 1) ELSE i

\* PRICE_RX matched at position i: the position group 1 starts at, or 0.
DigitAt(s, g) == IF g <= Len(s) /\ IsDigit(s[g]) THEN g ELSE 0

PriceRxAt(s, i) ==
    IF ~IsCurrency(s[i]) THEN 0
    ELSE DigitAt(s, SkipSpaces(s, IF s[i] = "Rs" /\ i + 1 <= Len(s) /\ s[i + 1] = "."
                                  THEN i + 2 ELSE i + 1))

\* The least element of a non-empty set of numbers.
Least(S) == CHOOSE h \in S : \A o \in S : h <= o

\* Group 1 of the match whose group starts at g (0: no match, <<>>).
PriceRxGroup(s, g) == IF g = 0 THEN <<>> ELSE SubSeq(s, g, GroupEnd(s, g))

\* The positions PRICE_RX matches at.
PriceRxHits(s) == { i \in 1..Len(s) : PriceRxAt(s, i) # 0 }

\* PRICE_RX.search(s): group 1 of the leftmost match, or <<>> for no match.
PRICE_RX(s) ==
    IF PriceRxHits(s) = {} THEN <<>>
    ELSE PriceRxGroup(s, PriceRxAt(s, Least(PriceRxHits(s))))

\* float(digits) for a string of digits and dots: a failure (ValueError) unless
\* it holds at most one dot and at least one digit.
FloatOfParts(whole, frac) ==
    [k |-> "num", v |-> IntOf(whole) * Unit + IntOf(frac) * Pow10(MaxLen - Len(frac))]

FloatOfSplit(ds, dots) ==
    IF Cardinality(dots) > 1 \/ Cardinality(dots) = Len(ds) THEN Raised
    ELSE IF dots = {} THEN FloatOfParts(ds, <<>>)
    ELSE FloatOfParts(SubSeq(ds, 1, Least(dots) - 1),
                      SubSeq(ds, Least(dots) + 1, Len(ds)))

FloatOfDigits(ds) == FloatOfSplit(ds, { i \in 1..Len(ds) : ds[i] = "." })

\* try: return float(...) except Exception: return None
TryFloat(f) == IF f = Raised THEN None ELSE f

IsDigitOrDot(c) == IsDigit(c) \/ c = "."
IsNoComma(c) == c # ","

\* The string branch: m is group 1 of the match (<<>>: no match), digits the
\* string stripped of all but digits and dots.
ParseString(m, digits) ==
    IF m # <<>> THEN TryFloat(Num(IntOf(SelectSeq(m, IsNoComma))))
    ELSE IF digits = <<>> THEN None
    ELSE TryFloat(FloatOfDigits(digits))

\* parse_price_loose(value): None, the float, or an exception (float() of an
\* int too large raises OverflowError outside any try).
parse_price_loose(value) ==
    CASE value.t = "none"  -> None
      [] value.t = "int"   -> IF value.k = "big" THEN Raised ELSE Num(value.n)
      [] value.t = "float" -> [k |-> value.k, v |-> value.n]
      [] OTHER -> ParseString(PRICE_RX(value.s), SelectSeq(value.s, IsDigitOrDot))

\* The floor check of parse_price_strict on the amount parsed.
StrictOf(amt, min_floor) ==
    CASE amt = Raised -> Raised
      [] amt = None   -> None
      [] min_floor # None /\ FLt(amt, min_floor) -> None
      [] OTHER        -> amt

\* parse_price_strict(value, min_floor): min_floor is None or a float.
parse_price_strict(value, min_floor) == StrictOf(parse_price_loose(value), min_floor)

\* The floor min_expected_price_for_query returns for an iPhone 15 query.
IPHONE15_FLOOR == 30000

\* --------------------------------------------------------------- words
\* A text is a sequence of words separated by single blanks; str.lower() and
\* re.I act through Lower.

Lower(w) ==
    CASE w = "iPhone" -> "iphone"
      [] w = "Pro"    -> "pro"
      [] w = "Case"   -> "case"
      [] OTHER        -> w

HasWord(text, W) == \E i \in 1..Len(text) : Lower(text[i]) \in W

HasPair(text, A, B) ==
    \E i \in 1..(Len(text) - 1) : Lower(text[i]) \in A /\ Lower(text[i + 1]) \in B

\* min_expected_price_for_query(query): "iphone 15" as a substring of the
\* lowered query, that is a word ending in iphone, one blank, a word starting
\* with 15.
min_expected_price_for_query(query) ==
    IF HasPair(query, {"iphone"}, {"15", "15pro"}) THEN Num(IPHONE15_FLOOR) ELSE None

\* -------------------------------------------------------- product_guards

\* ACCESSORY_NEGATIVE: the one-word patterns, then the \s* patterns as a pair
\* of words or the two written together.
AccessoryWords ==
    {"case", "cases", "cover", "covers", "silicone", "bumper", "tempered",
     "glass", "charger", "chargers", "cable", "cables", "adapter", "adapters",
     "earbud", "earbuds", "headphone", "headphones", "neckband", "strap",
     "straps", "stand", "stands", "magsafe", "wallet",
     "backcover", "screenprotector", "powerbank", "powerbanks", "carmount"}

looks_like_accessory(text) ==
    \/ HasWord(text, AccessoryWords)
    \/ HasPair(text, {"screen"}, {"protector"})
    \/ HasPair(text, {"power"}, {"bank", "banks"})
    \/ HasPair(text, {"car"}, {"mount"})

\* NEGATIVE_VARIANTS: pro max, pro, plus, max.
NEGATIVE_VARIANTS(text) == HasWord(text, {"promax", "pro", "plus", "max"})

\* POSITIVE_IPHONE15: \biphone\s*15\b.
POSITIVE_IPHONE15(text) ==
    HasWord(text, {"iphone15"}) \/ HasPair(text, {"iphone"}, {"15"})

query_targets_iphone15(query) == POSITIVE_IPHONE15(query)

\* Mutant of is_correct_variant: the variant words are not looked at.
is_correct_variant_base_only(product_name, query) ==
    POSITIVE_IPHONE15(product_name)

is_correct_variant(product_name, query) ==
    IF ~POSITIVE_IPHONE15(product_name) THEN FALSE
    ELSE IF ~NEGATIVE_VARIANTS(query) /\ NEGATIVE_VARIANTS(product_name) THEN FALSE
    ELSE TRUE

\* is_phone_category: a substring test on the lowered text, so a word that
\* merely contains "mobile" counts.
is_phone_category(category_text) ==
    \/ HasWord(category_text, {"mobile", "mobiles", "automobile",
                               "smartphone", "smartphones"})
    \/ HasPair(category_text, {"cell"}, {"phone", "phones"})

\* Mutant of validate_query: the accessory check is left out.
validate_query_no_accessory_check(query) ==
    IF ~query_targets_iphone15(query)
    THEN [ok |-> FALSE, reason |-> "query_missing_model_keyword"]
    ELSE [ok |-> TRUE, reason |-> ""]

validate_query(query) ==
    IF looks_like_accessory(query)
    THEN [ok |-> FALSE, reason |-> "query_is_accessory"]
    ELSE IF ~query_targets_iphone15(query)
    THEN [ok |-> FALSE, reason |-> "query_missing_model_keyword"]
    ELSE [ok |-> TRUE, reason |-> ""]

\* ------------------------------------------------------------------ URLs
\* A URL is [host, path, keys]: the labels of the host name, the segments of
\* the path ("" as the last segment is a trailing slash) and the names of the
\* query parameters.  A relative href has no host.  NoUrl is None or "".

Url(host, path, keys) == [host |-> host, path |-> path, keys |-> keys]
NoUrl == Url(<<>>, <<>>, <<>>)

\* k + "." is a substring of the host: a label k that another label follows.
HostHas(host, k) == \E i \in 1..(Len(host) - 1) : host[i] = k

\* "/" + k + "/" is a substring of the path.
SegFollowed(path, k) == \E i \in 1..(Len(path) - 1) : path[i] = k

\* "/" + a + "/" + b + "/" is a substring of the path.
PairFollowed(path, a, b) ==
    \E i \in 1..(Len(path) - 2) : path[i] = a /\ path[i + 1] = b

\* The segments of the model that start with "search", "s", "catalog",
\* "browse", "category", "collections", "results" or "product-reviews": the
\* path holds "/" + one of these keys as a substring.
SearchLikeSegments ==
    {"s", "search", "searchresults", "shop", "smartphones", "store",
     "catalog", "browse", "category", "collections", "results",
     "product-reviews"}

\* The parameter names of the model that end in "q", "query" or "search": the
\* query string holds "q=", "query=" or "search=" as a substring.
SearchLikeKeys == {"q", "faq", "query", "search"}

\* Segments of the model that start with "itm", and those of digits only.
ItmSegments == {"itm123"}
NumericSegments == {"123", "456"}

\* Mutant of is_probable_pdp: the query string is not looked at.
is_probable_pdp_no_query_check(url) ==
    IF url = NoUrl THEN FALSE
    ELSE IF \E i \in 1..Len(url.path) : url.path[i] \in SearchLikeSegments THEN FALSE
    ELSE IF HostHas(url.host, "amazon")
         THEN SegFollowed(url.path, "dp") \/ PairFollowed(url.path, "gp", "product")
    ELSE IF HostHas(url.host, "flipkart")
         THEN \/ (Len(url.path) >= 2 /\ url.path[1] = "p" /\ url.path[2] \in ItmSegments)
              \/ SegFollowed(url.path, "p")
    ELSE IF HostHas(url.host, "reliancedigital") \/ HostHas(url.host, "croma")
         THEN Len(url.path) >= 2 /\ url.path[1] = "p"
    ELSE IF HostHas(url.host, "vijaysales")
         THEN SegFollowed(url.path, "product")
    ELSE IF HostHas(url.host, "apple")
         THEN PairFollowed(url.path, "shop", "buy-iphone")
    ELSE \E i \in 1..Len(url.path) : url.path[i] \in NumericSegments

\* is_probable_pdp(url), the second definition of the file, which is the one
\* Python binds.
is_probable_pdp(url) ==
    IF url = NoUrl THEN FALSE
    ELSE IF \E i \in 1..Len(url.path) : url.path[i] \in SearchLikeSegments THEN FALSE
    ELSE IF \E i \in 1..Len(url.keys) : url.keys[i] \in SearchLikeKeys THEN FALSE
    ELSE IF HostHas(url.host, "amazon")
         THEN SegFollowed(url.path, "dp") \/ PairFollowed(url.path, "gp", "product")
    ELSE IF HostHas(url.host, "flipkart")
         THEN \/ (Len(url.path) >= 2 /\ url.path[1] = "p" /\ url.path[2] \in ItmSegments)
              \/ SegFollowed(url.path, "p")
    ELSE IF HostHas(url.host, "reliancedigital") \/ HostHas(url.host, "croma")
         THEN Len(url.path) >= 2 /\ url.path[1] = "p"
    ELSE IF HostHas(url.host, "vijaysales")
         THEN SegFollowed(url.path, "product")
    ELSE IF HostHas(url.host, "apple")
         THEN PairFollowed(url.path, "shop", "buy-iphone")
    ELSE \E i \in 1..Len(url.path) : url.path[i] \in NumericSegments

\* urljoin(base_url, href.split("?")[0]): the query is dropped, a relative
\* href takes the host of the base.
UrlJoin(base, href) ==
    Url(IF href.host = <<>> THEN base.host ELSE href.host, href.path, <<>>)

\* soup.select_one: the first anchor in document order that matches, or NoUrl.
FirstOf(anchors, hits) == IF hits = {} THEN NoUrl ELSE anchors[Least(hits)]

\* The selectors of find_pdp_from_search_html.
HrefHasDp(h)      == SegFollowed(h.path, "dp")
HrefFlipkart(h)   ==
    \/ (h.host = <<>> /\ Len(h.path) >= 2 /\ h.path[1] = "p" /\ h.path[2] \in ItmSegments)
    \/ (SegFollowed(h.path, "p") /\ \E i \in 1..Len(h.keys) : h.keys[i] = "pid")
HrefStartsP(h)    == h.host = <<>> /\ Len(h.path) >= 2 /\ h.path[1] = "p"
HrefHasProduct(h) == SegFollowed(h.path, "product")
HrefGeneric(h)    ==
    SegFollowed(h.path, "p") \/ SegFollowed(h.path, "product") \/ SegFollowed(h.path, "dp")

\* Whether an anchor matches the selector of a rule.
HrefMatches(sel, h) ==
    CASE sel = "amazon"     -> HrefHasDp(h)
      [] sel = "flipkart"   -> HrefFlipkart(h)
      [] sel = "p"          -> HrefStartsP(h)
      [] sel = "vijaysales" -> HrefHasProduct(h)
      [] OTHER              -> HrefGeneric(h)

\* The first anchor of the page that matches the selector, or NoUrl.
FirstAnchor(anchors, sel) ==
    FirstOf(anchors, { i \in 1..Len(anchors) : HrefMatches(sel, anchors[i]) })

\* find_pdp_from_search_html(domain, html, base_url), on the anchors of the
\* page: the rule of the domain first, then the generic rule; NoUrl is None.
\* One rule after the others: the anchor already found, else that of the rule
\* when the rule is that of the domain.
OrRule(hit, applies, anchor) ==
    IF hit # NoUrl THEN hit ELSE IF applies THEN anchor ELSE NoUrl

JoinHit(base_url, hit) == IF hit = NoUrl THEN NoUrl ELSE UrlJoin(base_url, hit)

\* Mutant of find_pdp_from_search_html: the generic rule comes first.
find_pdp_generic_first(domain, anchors, base_url) ==
    JoinHit(base_url,
      OrRule(
        OrRule(
          OrRule(
            OrRule(
              OrRule(NoUrl, TRUE, FirstAnchor(anchors, "generic")),
              HostHas(domain, "amazon"), FirstAnchor(anchors, "amazon")),
            HostHas(domain, "flipkart"), FirstAnchor(anchors, "flipkart")),
          HostHas(domain, "reliancedigital") \/ HostHas(domain, "croma"),
          FirstAnchor(anchors, "p")),
        HostHas(domain, "vijaysales"), FirstAnchor(anchors, "vijaysales")))

find_pdp_from_search_html(domain, anchors, base_url) ==
    JoinHit(base_url,
      OrRule(
        OrRule(
          OrRule(
            OrRule(
              OrRule(NoUrl, HostHas(domain, "amazon"), FirstAnchor(anchors, "amazon")),
              HostHas(domain, "flipkart"), FirstAnchor(anchors, "flipkart")),
            HostHas(domain, "reliancedigital") \/ HostHas(domain, "croma"),
            FirstAnchor(anchors, "p")),
          HostHas(domain, "vijaysales"), FirstAnchor(anchors, "vijaysales")),
        TRUE, FirstAnchor(anchors, "generic")))

\* ------------------------------------------------------- extract_mistral
\* A page is what the extractor and the search-to-PDP resolver read of its
\* markup: the anchors, og:url, the canonical link, og:title, the text of the
\* breadcrumb containers, the nodes of the JSON-LD blocks, the text of the
\* first visible-price element and the document title.  A JSON-LD node is
\* [typed, name, shape, offers]: typed says that @type names a product,
\* shape is "none", "dict" or "list", and an offer is [price, spec, sprice]
\* with spec the shape of priceSpecification ("absent", "dict", "null",
\* "nondict") and sprice its price.

Offer(price, spec, sprice) == [price |-> price, spec |-> spec, sprice |-> sprice]
Node(typed, name, shape, offers) ==
    [typed |-> typed, name |-> name, shape |-> shape, offers |-> offers]

\* An exception marker in the place of a Python value.
PyRaise(e) == [t |-> "raise", k |-> e, n |-> 0, s |-> <<>>]

\* offers.get("price") or offers.get("priceSpecification", {}).get("price")
OfferPriceDict(o) ==
    IF Truthy(o.price) THEN o.price
    ELSE CASE o.spec = "absent" -> PyNone
           [] o.spec = "dict"   -> o.sprice
           [] OTHER             -> PyRaise("AttributeError")

\* o.get("price") or (o.get("priceSpecification") or {}).get("price")
OfferPriceList(o) ==
    IF Truthy(o.price) THEN o.price
    ELSE CASE o.spec \in {"absent", "null"} -> PyNone
           [] o.spec = "dict"               -> o.sprice
           [] OTHER                         -> PyRaise("AttributeError")

\* Code point order of the characters of a price string.
CharOrd(c) ==
    CASE c = " " -> 32 [] c = "," -> 44 [] c = "." -> 46
      [] IsDigit(c) -> 48 + DigitVal(c)
      [] c = "INR" -> 73 [] c = "Rs" -> 82 [] OTHER -> 120

RECURSIVE StrLt(_, _)
\* a < b on Python strings.
StrLt(a, b) ==
    IF b = <<>> THEN FALSE
    ELSE IF a = <<>> THEN TRUE
    ELSE IF CharOrd(a[1]) # CharOrd(b[1]) THEN CharOrd(a[1]) < CharOrd(b[1])
    ELSE StrLt(Tail(a), Tail(b))

\* a < b on Python numbers (int or float; an int too large for a float is
\* above every finite float).
PyNumLt(a, b) ==
    LET big(x) == x.t = "int" /\ x.k = "big"
        f(x)   == IF x.t = "int" THEN Num(x.n) ELSE [k |-> x.k, v |-> x.n]
    IN  CASE big(a) -> ~big(b) /\ b.k = "inf"
          [] big(b) -> a.k = "num"
          [] OTHER  -> FLt(f(a), f(b))

\* One step of min(): x replaces best when it is strictly less; a string
\* against a number raises TypeError.
PyMinStep(best, x) ==
    IF best.t = "raise" THEN best
    ELSE IF (best.t = "str") # (x.t = "str") THEN PyRaise("TypeError")
    ELSE IF best.t = "str" THEN (IF StrLt(x.s, best.s) THEN x ELSE best)
    ELSE IF PyNumLt(x, best) THEN x ELSE best

RECURSIVE PyMinFrom(_, _)
\* min(): the first element is kept until a later one is strictly less.
PyMinFrom(best, rest) ==
    IF rest = <<>> THEN best
    ELSE PyMinFrom(PyMinStep(best, rest[1]), Tail(rest))

PyMin(vals) == PyMinFrom(vals[1], Tail(vals))

\* vals with the price p of one more offer in front; <<PyRaise>> once an
\* offer raises.
ConsPrice(p, rest) ==
    IF p.t = "raise" THEN <<p>>
    ELSE IF rest # <<>> /\ rest[1].t = "raise" THEN rest
    ELSE IF Truthy(p) THEN <<p>> \o rest ELSE rest

RECURSIVE ListPrices(_)
\* The list vals of _jsonld_offers_price.
ListPrices(offers) ==
    IF offers = <<>> THEN <<>>
    ELSE ConsPrice(OfferPriceList(offers[1]), ListPrices(Tail(offers)))

\* if p: out["price_value"] = p
IfTruthy(p) == IF p.t = "raise" \/ Truthy(p) THEN p ELSE PyNone

\* if vals: out["price_value"] = min(vals)
MinOfVals(vals) ==
    IF vals = <<>> THEN PyNone
    ELSE IF vals[1].t = "raise" THEN vals[1]
    ELSE PyMin(vals)

\* The price one node gives: PyNone for none, PyRaise for an exception.
NodePrice(node) ==
    CASE node.shape = "dict" -> IfTruthy(OfferPriceDict(node.offers[1]))
      [] node.shape = "list" -> MinOfVals(ListPrices(node.offers))
      [] OTHER -> PyNone

\* What one product node with price p adds to out.
JsonLdNode(out, node, p) ==
    [exc          |-> IF p.t = "raise" THEN p.k ELSE "none",
     product_name |-> IF node.name # <<>> THEN node.name ELSE out.product_name,
     price_value  |-> IF p.t = "raise" \/ p = PyNone THEN out.price_value ELSE p]

RECURSIVE JsonLdFrom(_, _)
\* _jsonld_offers_price over the nodes left, out being what is set so far.
JsonLdFrom(out, nodes) ==
    IF nodes = <<>> \/ out.exc # "none" THEN out
    ELSE IF ~nodes[1].typed THEN JsonLdFrom(out, Tail(nodes))
    ELSE JsonLdFrom(JsonLdNode(out, nodes[1], NodePrice(nodes[1])), Tail(nodes))

_jsonld_offers_price(page) ==
    JsonLdFrom([exc |-> "none", product_name |-> <<>>, price_value |-> PyNone],
               page.ld)

\* _meta_urls_name_category(soup)
_meta_urls_name_category(page) ==
    [og_url        |-> page.og_url,
     canonical_url |-> page.canonical,
     product_name  |-> page.og_title,
     breadcrumbs   |-> page.crumbs]

\* _fallback_visible_price(soup): the text of the first price element.
_fallback_visible_price(page) ==
    IF page.vis = <<>> THEN PyNone ELSE PyStr(page.vis)

\* str.strip() on a text: an empty word stands for surplus white space.
RECURSIVE Strip(_)
Strip(text) ==
    IF text = <<>> THEN text
    ELSE IF text[1] = "" THEN Strip(Tail(text))
    ELSE IF text[Len(text)] = "" THEN Strip(SubSeq(text, 1, Len(text) - 1))
    ELSE text

\* x or y on texts.
OrText(a, b) == IF a # <<>> THEN a ELSE b

\* The record of extract_from_html from what the tiers give: the meta tags
\* first, JSON-LD by setdefault, then the visible price and the title.
ExtractMerge(page, url, meta, jd) ==
    [exc           |-> jd.exc,
     deep_link     |-> url,
     og_url        |-> meta.og_url,
     canonical_url |-> meta.canonical_url,
     breadcrumbs   |-> meta.breadcrumbs,
     product_name  |-> OrText(OrText(meta.product_name, jd.product_name),
                              Strip(page.title)),
     price_value   |-> IF jd.price_value # PyNone THEN jd.price_value
                       ELSE _fallback_visible_price(page)]

\* extract_from_html(html, url): the record, absent fields being <<>>, NoUrl
\* or PyNone; exc names the exception that leaves it, if any.
extract_from_html(page, url) ==
    ExtractMerge(page, url, _meta_urls_name_category(page), _jsonld_offers_price(page))

\* ---------------------------------------------------------- the inputs

\* The domains of the model: one with rules of its own, one with none.
AMAZON  == <<"amazon", "in">>
EXAMPLE == <<"example", "com">>
DomainNames == {AMAZON, EXAMPLE}

\* Every domain list of at most MaxDomains entries, repetitions included.
DomainLists == SeqsUpTo(DomainNames, MaxDomains)

AmazonPdp    == Url(<<"www", "amazon", "in">>, <<"dp", "B0">>, <<>>)
AmazonSearch == Url(<<"www", "amazon", "in">>, <<"s">>, <<"k">>)
ExamplePdp   == Url(<<"example", "com">>, <<"item", "123">>, <<>>)
ExampleList  == Url(<<"example", "com">>, <<"iphone-15">>, <<>>)
Urls == {AmazonPdp, AmazonSearch, ExamplePdp, ExampleList}

\* The result lists of the search service: none, one URL, or a URL of
\* another site before one of the site asked for.
ResultLists ==
    {<<>>} \cup { <<u>> : u \in Urls } \cup { <<NoUrl, u>> : u \in Urls }
           \cup {<<ExamplePdp, AmazonPdp>>, <<AmazonSearch, ExampleList>>}

\* The queries of the pipeline.
Queries ==
    {<<"iPhone", "15", "128gb">>, <<"iphone15">>, <<"iphone", "15", "pro">>,
     <<"iPhone", "15", "case">>, <<"galaxy", "s24">>}

Page(anchors, og_title, crumbs, ld, vis, title) ==
    [empty |-> FALSE, anchors |-> anchors, og_url |-> NoUrl, canonical |-> NoUrl,
     og_title |-> og_title, crumbs |-> crumbs, ld |-> ld, vis |-> vis,
     title |-> title]

\* The body "".
EmptyPage ==
    [empty |-> TRUE, anchors |-> <<>>, og_url |-> NoUrl, canonical |-> NoUrl,
     og_title |-> <<>>, crumbs |-> <<>>, ld |-> <<>>, vis |-> <<>>, title |-> <<>>]

\* A product page whose JSON-LD block names the product and one offer.
ProductPage(name, crumbs, price) ==
    Page(<<>>, <<>>, crumbs,
         <<Node(TRUE, name, "dict", <<Offer(price, "absent", PyNone)>>)>>,
         <<>>, <<>>)

Phone == <<"iPhone", "15">>

\* The pages a site may answer with.
Pages ==
    { ProductPage(Phone, <<"mobiles">>, PyInt(76999)),
      ProductPage(Phone, <<"mobiles">>, PyInt(79999)),
      \* og:title as the name, the price as visible text "Rs 79,999"
      Page(<<>>, Phone, <<>>, <<>>,
           <<"Rs", " ", "7", "9", ",", "9", "9", "9">>, <<"buy">>),
      \* an accessory, of a wrong category, below the floor
      ProductPage(<<"iPhone", "15", "Case">>, <<"accessories">>, PyInt(499)),
      \* a dearer variant, of a wrong category, with no price
      ProductPage(<<"iPhone", "15", "Pro">>, <<"electronics">>, PyNone),
      \* the phone under a wrong category, with no price
      ProductPage(Phone, <<"electronics">>, PyNone),
      ProductPage(Phone, <<"mobiles">>, PyNone),
      ProductPage(Phone, <<>>, PyInt(20000)),
      ProductPage(Phone, <<>>, PyInt(-5)),
      ProductPage(Phone, <<>>, PyFloat(NaN)),
      ProductPage(Phone, <<>>, PyFloat(PosInf)),
      ProductPage(Phone, <<>>, PyBigInt),
      \* offers as a list of a string and a number
      Page(<<>>, <<>>, <<>>,
           <<Node(TRUE, Phone, "list",
                  <<Offer(PyStr(<<"7", "6", "9", "9", "9">>), "absent", PyNone),
                    Offer(PyInt(79999), "absent", PyNone)>>)>>,
           <<>>, <<>>),
      \* result pages: anchors only
      Page(<<Url(<<>>, <<"p", "x">>, <<>>), Url(<<>>, <<"dp", "B0">>, <<"ref">>)>>,
           <<>>, <<>>, <<>>, <<>>, <<"results">>),
      Page(<<Url(<<>>, <<"product", "123">>, <<>>)>>,
           <<>>, <<>>, <<>>, <<>>, <<"results">>) }

\* What a site answers: a transport failure, a status other than 200 with a
\* body, or 200 with a body (which may be empty).
SiteResponses ==
    { [err |-> TRUE, status |-> 0, text |-> EmptyPage] }
    \cup { [err |-> FALSE, status |-> 404, text |-> pg] :
             pg \in {ProductPage(Phone, <<"mobiles">>, PyInt(76999))} }
    \cup { [err |-> FALSE, status |-> 200, text |-> pg] : pg \in Pages \cup {EmptyPage} }

\* What the search service answers: a transport failure, an error status, or
\* 200 with a result list.
SearchResponses ==
    { [err |-> TRUE, status |-> 0, results |-> <<>>],
      [err |-> FALSE, status |-> 429, results |-> <<>>] }
    \cup { [err |-> FALSE, status |-> 200, results |-> r] : r \in ResultLists }

\* ---------------------------------------------------------------- state

VARIABLES
    query,          \* the query passed to preview_lowest_by_name
    domains_arg,    \* its domains argument (<<>>: None or an empty list)
    env_domains,    \* settings.INDIA_ECOM_DOMAINS, split
    pc,             \* where the call stands
    domains,        \* the domain list in use
    ri,             \* resolve_urls_all_sites: index of the next domain
    domain_to_url,  \* the dict of resolved URLs, in insertion order
    min_floor,      \* the floor of the query, or None
    found,          \* the offer candidates
    details,        \* the diagnostics
    sample_name,    \* the first name seen (<<>>: None)
    li,             \* the loop over domain_to_url: index of the next item
    url,            \* the URL of the domain in hand
    inflight,       \* the network call awaited
    calls,          \* every network call issued so far, in order
    fetched,        \* what the last fetch_html call returned
    extracted,      \* per page extracted: its domain, name, category, price
    result,         \* the value returned
    exc,            \* the exception that left the call
    px,             \* SpecPrice: the value parsed
    pfloor,         \* SpecPrice: the floor
    ploose,         \* SpecPrice: parse_price_loose(px), once called
    pstrict,        \* SpecPrice: parse_price_strict(px, pfloor), once called
    arg,            \* a function called alone: its arguments
    ret,            \* a function called alone: <<>>, or <<the value returned>>
    run,            \* SpecTwice: the number of the call under way (1 or 2)
    responses,      \* SpecTwice: the answers received during this call
    first,          \* SpecTwice: how the first call ended, and its answers
    s_pc,           \* search_products_sorted: where the call stands
    s_query,        \* its query
    s_limit,        \* its limit
    s_domain,       \* index of the next of CORE_DOMAINS to search
    all_results,    \* the results gathered
    s_next,         \* index of the next result to look at
    valid_offers,   \* the offers accepted so far
    seen_urls,      \* the URLs accepted so far
    s_ret,          \* the value returned
    db,             \* the product table: the committed rows
    products,       \* refresh_all_products_lowest_prices: the objects loaded
    r_pc,           \* where the call stands
    r_next,         \* index of the next product
    updated,        \* the count of products updated
    failed,         \* the products no offer was found for
    offers_found,   \* the offers found during this call, per product
    runs,           \* the number of calls made so far
    u_pc,           \* update_single_product_lowest: where the call stands
    u_pid,          \* its pid
    u_domains,      \* the domains it resolves
    u_map,          \* domain_to_url, in the order of insertion
    u_li,           \* index of the next entry of domain_to_url
    u_found,        \* the offers found so far
    u_details,      \* the details gathered so far
    u_ret,          \* the value returned
    u_log           \* the calls that committed: the row before, the offers

pipeVars ==
    <<query, domains_arg, env_domains, pc, domains, ri, domain_to_url, min_floor,
      found, details, sample_name, li, url, inflight, calls, fetched, extracted,
      result, exc>>
priceVars == <<px, pfloor, ploose, pstrict>>
fnVars == <<arg, ret>>
twiceVars == <<run, responses, first>>
searchVars ==
    <<s_pc, s_query, s_limit, s_domain, all_results, s_next, valid_offers,
      seen_urls, s_ret>>
refreshVars == <<db, products, r_pc, r_next, updated, failed, offers_found, runs>>
updateVars == <<u_pc, u_pid, u_domains, u_map, u_li, u_found, u_details, u_ret, u_log>>
otherVars == <<priceVars, fnVars, searchVars, refreshVars, updateVars>>
vars == <<pipeVars, twiceVars, otherVars>>

\* No second call of preview_lowest_by_name is being compared.
TwiceAtRest ==
    /\ run = 1
    /\ responses = <<>>
    /\ first = <<>>

\* search_products_sorted is not running.
SearchAtRest ==
    /\ s_pc = "idle"
    /\ s_query = <<>>
    /\ s_limit = 0
    /\ s_domain = 1
    /\ all_results = <<>>
    /\ s_next = 1
    /\ valid_offers = <<>>
    /\ seen_urls = {}
    /\ s_ret = <<>>

\* refresh_all_products_lowest_prices is not running, on an empty table.
RefreshAtRest ==
    /\ db = <<>>
    /\ products = <<>>
    /\ r_pc = "idle"
    /\ r_next = 1
    /\ updated = 0
    /\ failed = <<>>
    /\ offers_found = <<>>
    /\ runs = 0

\* update_single_product_lowest is not running and has committed nothing.
UpdateAtRest ==
    /\ u_pc = "idle"
    /\ u_pid = 0
    /\ u_domains = <<>>
    /\ u_map = <<>>
    /\ u_li = 1
    /\ u_found = <<>>
    /\ u_details = <<>>
    /\ u_ret = <<>>
    /\ u_log = <<>>

Idle     == [op |-> "none", domain |-> <<>>, url |-> NoUrl]
NoResult == [status |-> "", product_name |-> <<>>, selected_domain |-> <<>>,
             currentPrice |-> None, deepLink |-> NoUrl, details |-> <<>>]
NoExc    == [type |-> "none", from |-> "none"]
NotFetched == [raised |-> FALSE, code |-> 0, nonempty |-> FALSE, anchors |-> <<>>]
Unset    == [k |-> "unset", v |-> 0]

\* ------------------------------------------------------- collaborators

\* get_india_domains(): the configured list (already stripped and lowered).
get_india_domains(env) == env

\* domain in url: the domain as a substring of the URL, here of its host.
InUrl(domain, u) ==
    \E i \in 0..(Len(u.host) - Len(domain)) :
        SubSeq(u.host, i + 1, i + Len(domain)) = domain

\* resolve_url_for_domain on the answer of the search service: the exception
\* it raises (httpx.post, raise_for_status), or the first result of the site.
resolve_url_for_domain(resp, domain) ==
    IF resp.err THEN [exc |-> "TransportError", url |-> NoUrl]
    ELSE IF resp.status # 200 THEN [exc |-> "HTTPStatusError", url |-> NoUrl]
    ELSE [exc |-> "none",
          url |-> FirstOf(resp.results,
                          { i \in 1..Len(resp.results) :
                              resp.results[i] # NoUrl /\ InUrl(domain, resp.results[i]) })]

\* Mutant of DictSet: a list of pairs, a repeated key making a second item.
DictSetAppends(d, key, value) == Append(d, [domain |-> key, url |-> value])

\* results[d] = ... on a dict: a new key is appended, a known key keeps its
\* place and takes the value.
DictSet(d, key, value) ==
    IF \E i \in 1..Len(d) : d[i].domain = key
    THEN [i \in 1..Len(d) |->
            IF d[i].domain = key THEN [domain |-> key, url |-> value] ELSE d[i]]
    ELSE Append(d, [domain |-> key, url |-> value])

\* fetch_http(url) on the answer of the site, as fetch_html returns it: the
\* body only with status 200; an exception of the client is not caught.
fetch_html(resp) ==
    IF resp.err THEN [raised |-> TRUE, code |-> 0, html |-> EmptyPage]
    ELSE IF resp.status = 200
         THEN [raised |-> FALSE, code |-> 200, html |-> resp.text]
         ELSE [raised |-> FALSE, code |-> resp.status, html |-> EmptyPage]

\* f"http_{code}"
HttpStatus(code) ==
    CASE code = 200 -> "http_200" [] code = 404 -> "http_404" [] OTHER -> "http_other"

\* ------------------------------------------------------ preview_search

RECURSIVE ScanLowest(_, _, _)
\* min(prices, key=price): the index kept, a later item replacing it only
\* when its price is strictly less.
ScanLowest(prices, best, i) ==
    IF i > Len(prices) THEN best
    ELSE ScanLowest(prices,
                    IF FLt(prices[i].price, prices[best].price) THEN i ELSE best,
                    i + 1)

\* _choose_lowest(prices): min(prices, key=price) as <<best>>, or <<>> (None).
_choose_lowest(prices) ==
    IF prices = <<>> THEN <<>> ELSE <<prices[ScanLowest(prices, 1, 2)]>>

Detail(domain, status, u, name, price, category) ==
    [domain |-> domain, status |-> status, url |-> u, name |-> name,
     price |-> price, category |-> category]

\* Mutant of guard_status: the price is looked at before the guards.
guard_status_price_first(name, category, price, q) ==
    IF price = None THEN "no_price"
    ELSE IF looks_like_accessory(name) THEN "rejected_accessory"
    ELSE IF ~is_correct_variant(name, q) THEN "variant_mismatch"
    ELSE IF category # <<>> /\ ~is_phone_category(category) THEN "category_mismatch"
    ELSE "ok"

\* Steps 6 and 7 of the loop body: the status the guards and the price give.
guard_status(name, category, price, q) ==
    IF looks_like_accessory(name) THEN "rejected_accessory"
    ELSE IF ~is_correct_variant(name, q) THEN "variant_mismatch"
    ELSE IF category # <<>> /\ ~is_phone_category(category) THEN "category_mismatch"
    ELSE IF price = None THEN "no_price"
    ELSE "ok"

\* x or y or z on URLs.
FirstUrl(a, b, c) == IF a # NoUrl THEN a ELSE IF b # NoUrl THEN b ELSE c

\* domains or get_india_domains()
EffectiveDomains == IF domains_arg # <<>> THEN domains_arg ELSE get_india_domains(env_domains)

Init ==
    /\ query \in Queries
    /\ domains_arg \in DomainLists
    /\ env_domains \in DomainLists
    /\ pc = "validate"
    /\ domains = <<>>
    /\ ri = 1
    /\ domain_to_url = <<>>
    /\ min_floor = None
    /\ found = <<>>
    /\ details = <<>>
    /\ sample_name = <<>>
    /\ li = 1
    /\ url = NoUrl
    /\ inflight = Idle
    /\ calls = <<>>
    /\ fetched = NotFetched
    /\ extracted = <<>>
    /\ result = NoResult
    /\ exc = NoExc
    /\ px = PyNone
    /\ pfloor = None
    /\ ploose = Unset
    /\ pstrict = Unset
    /\ arg = <<>>
    /\ ret = <<>>
    /\ TwiceAtRest
    /\ SearchAtRest
    /\ RefreshAtRest
    /\ UpdateAtRest

\* Step 0 on what validate_query gave.
Validated(v) ==
    IF ~v.ok
    THEN /\ result' = [NoResult EXCEPT !.status = v.reason]
         /\ pc' = "done"
         /\ UNCHANGED domains
    ELSE /\ domains' = EffectiveDomains
         /\ pc' = "resolve"
         /\ UNCHANGED result

\* Step 0: validate_query; a rejection returns at once.
Validate ==
    /\ pc = "validate"
    /\ Validated(validate_query(query))
    /\ UNCHANGED <<query, domains_arg, env_domains, ri, domain_to_url, min_floor,
                   found, details, sample_name, li, url, inflight, calls, fetched,
                   extracted, exc, otherVars, twiceVars>>

\* resolve_urls_all_sites: the request for the next domain is sent.
ResolveCall ==
    /\ pc = "resolve"
    /\ ri <= Len(domains)
    /\ inflight' = [op |-> "resolve", domain |-> domains[ri], url |-> NoUrl]
    /\ calls' = Append(calls, inflight')
    /\ pc' = "resolve_wait"
    /\ UNCHANGED <<query, domains_arg, env_domains, domains, ri, domain_to_url,
                   min_floor, found, details, sample_name, li, url, fetched,
                   extracted, result, exc, otherVars, twiceVars>>

\* resolve_urls_all_sites on what resolve_url_for_domain gave.
Resolved(r) ==
    IF r.exc # "none"
    THEN /\ pc' = "raised"
         /\ exc' = [type |-> r.exc, from |-> "resolve_url_for_domain"]
         /\ UNCHANGED <<ri, domain_to_url>>
    ELSE /\ domain_to_url' = DictSet(domain_to_url, domains[ri], r.url)
         /\ ri' = ri + 1
         /\ pc' = "resolve"
         /\ UNCHANGED exc

\* resolve_url_for_domain returns, or raises through the whole call.
ResolveAnswered(resp) ==
    /\ pc = "resolve_wait"
    /\ Resolved(resolve_url_for_domain(resp, domains[ri]))
    /\ inflight' = Idle
    /\ UNCHANGED <<query, domains_arg, env_domains, domains, min_floor, found,
                   details, sample_name, li, url, calls, fetched, extracted,
                   result, otherVars>>

\* Step 1: the search service answers, whatever it answers.
ResolveReturn ==
    \E resp \in SearchResponses : ResolveAnswered(resp) /\ UNCHANGED twiceVars

\* Every domain is resolved: the floor is computed and the loop starts.
ResolveDone ==
    /\ pc = "resolve"
    /\ ri > Len(domains)
    /\ min_floor' = min_expected_price_for_query(query)
    /\ pc' = "loop"
    /\ UNCHANGED <<query, domains_arg, env_domains, domains, ri, domain_to_url,
                   found, details, sample_name, li, url, inflight, calls, fetched,
                   extracted, result, exc, otherVars, twiceVars>>

\* The diagnostic of a domain that resolved to no URL.
NoUrlDetail(domain) == <<Detail(domain, "no_url", NoUrl, <<>>, None, <<>>)>>

\* The head of the loop body: no URL, a PDP URL, or a page to convert.
LoopNext ==
    /\ pc = "loop"
    /\ li <= Len(domain_to_url)
    /\ LET item == domain_to_url[li]
       IN  IF item.url = NoUrl
           THEN /\ details' = details \o NoUrlDetail(item.domain)
                /\ li' = li + 1
                /\ UNCHANGED <<pc, url>>
           ELSE /\ url' = item.url
                /\ pc' = IF is_probable_pdp(item.url) THEN "fetch_pdp" ELSE "fetch_search"
                /\ UNCHANGED <<details, li>>
    /\ UNCHANGED <<query, domains_arg, env_domains, domains, ri, domain_to_url,
                   min_floor, found, sample_name, inflight, calls, fetched,
                   extracted, result, exc, otherVars, twiceVars>>

\* Step 3: fetch_html(url) of a page that is no PDP is sent.
FetchSearchCall ==
    /\ pc = "fetch_search"
    /\ inflight' = [op |-> "fetch", domain |-> domain_to_url[li].domain, url |-> url]
    /\ calls' = Append(calls, inflight')
    /\ pc' = "fetch_search_wait"
    /\ UNCHANGED <<query, domains_arg, env_domains, domains, ri, domain_to_url,
                   min_floor, found, details, sample_name, li, url, fetched,
                   extracted, result, exc, otherVars, twiceVars>>

\* Mutant of Continue: the diagnostic is recorded and the same domain is
\* taken up again.
ContinueSameDomain(d) ==
    /\ details' = Append(details, d)
    /\ li' = li
    /\ url' = NoUrl
    /\ pc' = "loop"
    /\ UNCHANGED exc

\* The domain ends with one diagnostic and the loop goes on.
Continue(d) ==
    /\ details' = Append(details, d)
    /\ li' = li + 1
    /\ url' = NoUrl
    /\ pc' = "loop"
    /\ UNCHANGED exc

\* The exception leaves preview_lowest_by_name.
Raise(type, from) ==
    /\ pc' = "raised"
    /\ exc' = [type |-> type, from |-> from]
    /\ UNCHANGED <<details, li, url>>

\* Mutant of Converted: the URL found is adopted whether or not it is
\* classified as a PDP.
ConvertedUnclassified(domain, cand) ==
    IF cand # NoUrl
    THEN /\ url' = cand
         /\ pc' = "fetch_pdp"
         /\ UNCHANGED <<details, li, exc>>
    ELSE Continue(Detail(domain, "not_pdp_url", url, <<>>, None, <<>>))

\* Step 3 once the page is there: cand is what find_pdp_from_search_html gave.
Converted(domain, cand) ==
    IF cand # NoUrl /\ is_probable_pdp(cand)
    THEN /\ url' = cand
         /\ pc' = "fetch_pdp"
         /\ UNCHANGED <<details, li, exc>>
    ELSE Continue(Detail(domain, "not_pdp_url", url, <<>>, None, <<>>))

\* Step 3 on what fetch_html returned.
SearchAnswer(domain, r) ==
    /\ fetched' = [raised |-> r.raised, code |-> r.code, nonempty |-> ~r.html.empty,
                   anchors |-> r.html.anchors]
    /\ IF r.raised THEN Raise("TransportError", "fetch_html")
       ELSE IF r.code = 200 /\ ~r.html.empty
       THEN Converted(domain, find_pdp_from_search_html(domain, r.html.anchors, url))
       ELSE Continue(Detail(domain, HttpStatus(r.code), url, <<>>, None, <<>>))

\* Step 3, the answer: the page is converted to a PDP URL, or the domain ends.
FetchSearchAnswered(resp) ==
    /\ pc = "fetch_search_wait"
    /\ SearchAnswer(domain_to_url[li].domain, fetch_html(resp))
    /\ inflight' = Idle
    /\ UNCHANGED <<query, domains_arg, env_domains, domains, ri, domain_to_url,
                   min_floor, found, sample_name, calls, extracted, result,
                   otherVars>>

\* Step 3: the site answers the fetch of the search page, whatever it answers.
FetchSearchReturn ==
    \E resp \in SiteResponses : FetchSearchAnswered(resp) /\ UNCHANGED twiceVars

\* Step 4: fetch_html(url) of the PDP is sent.
FetchPdpCall ==
    /\ pc = "fetch_pdp"
    /\ inflight' = [op |-> "fetch", domain |-> domain_to_url[li].domain, url |-> url]
    /\ calls' = Append(calls, inflight')
    /\ pc' = "fetch_pdp_wait"
    /\ UNCHANGED <<query, domains_arg, env_domains, domains, ri, domain_to_url,
                   min_floor, found, details, sample_name, li, url, fetched,
                   extracted, result, exc, otherVars, twiceVars>>

\* Steps 6 and 7 once the status of the page is known.
Guarded(domain, link, name, category, price, status) ==
    /\ sample_name' = IF name # <<>> /\ sample_name = <<>> THEN name ELSE sample_name
    /\ extracted' = Append(extracted, [domain |-> domain, name |-> name,
                                       category |-> category, price |-> price])
    /\ found' = IF status = "ok"
                THEN Append(found, [domain |-> domain, price |-> price, link |-> link])
                ELSE found
    /\ Continue(Detail(domain, status, link, name,
                       IF status = "ok" THEN price ELSE None,
                       IF status = "category_mismatch" THEN category ELSE <<>>))

\* Step 5 once the price is parsed: parse_price_loose may raise.
Priced(domain, link, name, category, price) ==
    IF price = Raised
    THEN /\ Raise("OverflowError", "parse_price_loose")
         /\ UNCHANGED <<found, sample_name, extracted>>
    ELSE Guarded(domain, link, name, category, price,
                 guard_status(name, category, price, query))

\* Step 5 on what extract_from_html gave.
Extracted(domain, data) ==
    IF data.exc # "none"
    THEN /\ Raise(data.exc, "extract_from_html")
         /\ UNCHANGED <<found, sample_name, extracted>>
    ELSE Priced(domain,
                FirstUrl(data.canonical_url, data.og_url, data.deep_link),
                Strip(data.product_name), Strip(data.breadcrumbs),
                parse_price_strict(data.price_value, min_floor))

\* Step 4 on what fetch_html returned.
PdpAnswer(domain, r) ==
    /\ fetched' = [raised |-> r.raised, code |-> r.code, nonempty |-> ~r.html.empty,
                   anchors |-> r.html.anchors]
    /\ IF r.raised
       THEN /\ Raise("TransportError", "fetch_html")
            /\ UNCHANGED <<found, sample_name, extracted>>
       ELSE IF r.code # 200 \/ r.html.empty
       THEN /\ Continue(Detail(domain, HttpStatus(r.code), url, <<>>, None, <<>>))
            /\ UNCHANGED <<found, sample_name, extracted>>
       ELSE Extracted(domain, extract_from_html(r.html, url))

\* Steps 4 to 7, the answer: extraction, the price, the guards, the candidate.
FetchPdpAnswered(resp) ==
    /\ pc = "fetch_pdp_wait"
    /\ PdpAnswer(domain_to_url[li].domain, fetch_html(resp))
    /\ inflight' = Idle
    /\ UNCHANGED <<query, domains_arg, env_domains, domains, ri, domain_to_url,
                   min_floor, calls, result, otherVars>>

\* Steps 4 to 7: the site answers the fetch of the PDP, whatever it answers.
FetchPdpReturn ==
    \E resp \in SiteResponses : FetchPdpAnswered(resp) /\ UNCHANGED twiceVars

\* The value returned at step 8 for the best candidate, <<>> being None.
ReturnValue(best) ==
    IF best = <<>>
    THEN [NoResult EXCEPT !.status = "no_deal", !.product_name = sample_name,
                          !.details = details]
    ELSE [status |-> "ok", product_name |-> sample_name,
          selected_domain |-> best[1].domain, currentPrice |-> best[1].price,
          deepLink |-> best[1].link, details |-> details]

\* Mutant of Select: the winner is picked while domains are still to be
\* processed.
SelectEarly ==
    /\ pc = "loop"
    /\ result' = ReturnValue(_choose_lowest(found))
    /\ pc' = "done"
    /\ UNCHANGED <<query, domains_arg, env_domains, domains, ri, domain_to_url,
                   min_floor, found, details, sample_name, li, url, inflight,
                   calls, fetched, extracted, exc, otherVars, twiceVars>>

\* Step 8: the winner, or no deal.
Select ==
    /\ pc = "loop"
    /\ li > Len(domain_to_url)
    /\ result' = ReturnValue(_choose_lowest(found))
    /\ pc' = "done"
    /\ UNCHANGED <<query, domains_arg, env_domains, domains, ri, domain_to_url,
                   min_floor, found, details, sample_name, li, url, inflight,
                   calls, fetched, extracted, exc, otherVars, twiceVars>>

Next ==
    \/ Validate
    \/ ResolveCall
    \/ ResolveReturn
    \/ ResolveDone
    \/ LoopNext
    \/ FetchSearchCall
    \/ FetchSearchReturn
    \/ FetchPdpCall
    \/ FetchPdpReturn
    \/ Select

Spec == Init /\ [][Next]_vars

----------------------------------------------------------------------------
\* preview_lowest_by_name called twice with the same arguments, the search
\* service and the sites answering the second call as they answered the first.

\* The answer resp to the call in flight is the one the same call received
\* at the same place of the first call.
Replayed(resp) ==
    (/\ run = 2
     /\ Len(responses) < Len(first.responses)
     /\ first.responses[Len(responses) + 1].call = inflight)
        => first.responses[Len(responses) + 1].resp = resp

Answered(resp) ==
    /\ Replayed(resp)
    /\ responses' = Append(responses, [call |-> inflight, resp |-> resp])
    /\ UNCHANGED <<run, first>>

\* The answers of the search service and of the sites in the two calls.
TwiceSearchResponses ==
    { [err |-> TRUE, status |-> 0, results |-> <<>>] }
    \cup { [err |-> FALSE, status |-> 200, results |-> <<u>>] :
             u \in {AmazonPdp, AmazonSearch, ExamplePdp} }

TwiceSiteResponses ==
    { [err |-> TRUE, status |-> 0, text |-> EmptyPage] }
    \cup { [err |-> FALSE, status |-> 200, text |-> pg] :
             pg \in { ProductPage(Phone, <<"mobiles">>, PyInt(76999)),
                      ProductPage(Phone, <<"mobiles">>, PyInt(79999)),
                      ProductPage(Phone, <<>>, PyInt(20000)),
                      Page(<<Url(<<>>, <<"product", "123">>, <<>>)>>,
                           <<>>, <<>>, <<>>, <<>>, <<"results">>) } }

TwiceResolveReturn ==
    \E resp \in TwiceSearchResponses : ResolveAnswered(resp) /\ Answered(resp)

TwiceFetchSearchReturn ==
    \E resp \in TwiceSiteResponses : FetchSearchAnswered(resp) /\ Answered(resp)

TwiceFetchPdpReturn ==
    \E resp \in TwiceSiteResponses : FetchPdpAnswered(resp) /\ Answered(resp)

\* Mutant of SecondCall: details outlives the call, as a list shared between
\* calls would.
SecondCallKeepsDetails ==
    /\ run = 1
    /\ pc \in {"done", "raised"}
    /\ first' = [pc |-> pc, result |-> result, exc |-> exc,
                 responses |-> responses]
    /\ run' = 2
    /\ responses' = <<>>
    /\ pc' = "validate"
    /\ domains' = <<>>
    /\ ri' = 1
    /\ domain_to_url' = <<>>
    /\ min_floor' = None
    /\ found' = <<>>
    /\ sample_name' = <<>>
    /\ li' = 1
    /\ url' = NoUrl
    /\ calls' = <<>>
    /\ fetched' = NotFetched
    /\ extracted' = <<>>
    /\ result' = NoResult
    /\ exc' = NoExc
    /\ UNCHANGED <<query, domains_arg, env_domains, details, inflight,
                   otherVars>>

\* The first call is over; the second call starts, with the same arguments
\* and locals of its own.
SecondCall ==
    /\ run = 1
    /\ pc \in {"done", "raised"}
    /\ first' = [pc |-> pc, result |-> result, exc |-> exc,
                 responses |-> responses]
    /\ run' = 2
    /\ responses' = <<>>
    /\ pc' = "validate"
    /\ domains' = <<>>
    /\ ri' = 1
    /\ domain_to_url' = <<>>
    /\ min_floor' = None
    /\ found' = <<>>
    /\ details' = <<>>
    /\ sample_name' = <<>>
    /\ li' = 1
    /\ url' = NoUrl
    /\ calls' = <<>>
    /\ fetched' = NotFetched
    /\ extracted' = <<>>
    /\ result' = NoResult
    /\ exc' = NoExc
    /\ UNCHANGED <<query, domains_arg, env_domains, inflight, otherVars>>

NextTwice ==
    \/ Validate
    \/ ResolveCall
    \/ TwiceResolveReturn
    \/ ResolveDone
    \/ LoopNext
    \/ FetchSearchCall
    \/ TwiceFetchSearchReturn
    \/ FetchPdpCall
    \/ TwiceFetchPdpReturn
    \/ Select
    \/ SecondCall

\* The arguments of the two calls.
InitTwice ==
    /\ Init
    /\ query \in {<<"iPhone", "15", "128gb">>, <<"iPhone", "15", "case">>}
    /\ env_domains = <<AMAZON>>

SpecTwice == InitTwice /\ [][NextTwice]_vars

\* ------------------------------------------------- the price parsers alone
\* parse_price_loose and parse_price_strict called on one value and one floor.

PriceAlphabet == {"INR", "Rs", "1", "2", ",", ".", " ", "x"}

\* The values parsed: None, ints, floats, and every string of at most MaxLen
\* characters of the alphabet.
PriceInputs ==
    {PyNone, PyInt(0), PyInt(12), PyInt(-5), PyBigInt,
     PyFloat(Num(12)), PyFloat(NaN), PyFloat(PosInf)}
    \cup { PyStr(s) : s \in SeqsUpTo(PriceAlphabet, MaxLen) }

Floors == {None, Num(2), Num(12), Num(IPHONE15_FLOOR)}

InitPrice ==
    /\ px \in PriceInputs
    /\ pfloor \in Floors
    /\ ploose = Unset
    /\ pstrict = Unset
    /\ query = <<>>
    /\ domains_arg = <<>>
    /\ env_domains = <<>>
    /\ pc = "price"
    /\ domains = <<>>
    /\ ri = 1
    /\ domain_to_url = <<>>
    /\ min_floor = None
    /\ found = <<>>
    /\ details = <<>>
    /\ sample_name = <<>>
    /\ li = 1
    /\ url = NoUrl
    /\ inflight = Idle
    /\ calls = <<>>
    /\ fetched = NotFetched
    /\ extracted = <<>>
    /\ result = NoResult
    /\ exc = NoExc
    /\ arg = <<>>
    /\ ret = <<>>
    /\ TwiceAtRest
    /\ SearchAtRest
    /\ RefreshAtRest
    /\ UpdateAtRest

\* parse_price_loose(px) is called.
CallLoose ==
    /\ ploose = Unset
    /\ ploose' = parse_price_loose(px)
    /\ UNCHANGED <<px, pfloor, pstrict, pipeVars, twiceVars, fnVars, searchVars,
                   refreshVars, updateVars>>

\* parse_price_strict(px, pfloor) is called.
CallStrict ==
    /\ pstrict = Unset
    /\ pstrict' = parse_price_strict(px, pfloor)
    /\ UNCHANGED <<px, pfloor, ploose, pipeVars, twiceVars, fnVars, searchVars,
                   refreshVars, updateVars>>

NextPrice ==
    \/ CallLoose
    \/ CallStrict

SpecPrice == InitPrice /\ [][NextPrice]_vars

\* ------------------------------------------------ functions called alone
\* A function of the service called on arguments drawn from a bounded set:
\* arg holds the arguments, ret the value once the call has returned.

\* The pipeline and the price parsers are not running.
AtRest ==
    /\ query = <<>>
    /\ domains_arg = <<>>
    /\ env_domains = <<>>
    /\ pc = "alone"
    /\ domains = <<>>
    /\ ri = 1
    /\ domain_to_url = <<>>
    /\ min_floor = None
    /\ found = <<>>
    /\ details = <<>>
    /\ sample_name = <<>>
    /\ li = 1
    /\ url = NoUrl
    /\ inflight = Idle
    /\ calls = <<>>
    /\ fetched = NotFetched
    /\ extracted = <<>>
    /\ result = NoResult
    /\ exc = NoExc
    /\ px = PyNone
    /\ pfloor = None
    /\ ploose = Unset
    /\ pstrict = Unset

\* Nothing else is running.
Alone ==
    /\ AtRest
    /\ TwiceAtRest
    /\ SearchAtRest
    /\ RefreshAtRest
    /\ UpdateAtRest

\* The call returns v.
Return(v) ==
    /\ ret = <<>>
    /\ ret' = <<v>>
    /\ UNCHANGED <<arg, pipeVars, twiceVars, priceVars, searchVars, refreshVars, updateVars>>

\* --- is_correct_variant

NameWords ==
    {"iPhone", "iphone", "15", "Pro", "pro", "plus", "max", "iphone15",
     "galaxy", "promo"}

ProductNames == SeqsUpTo(NameWords, MaxWords)

VariantQueries ==
    Queries \cup {<<"iphone", "15">>, <<"iphone", "15", "plus">>,
                  <<"iphone", "15", "pro", "max">>}

InitVariant ==
    /\ arg \in [product_name : ProductNames, query : VariantQueries]
    /\ ret = <<>>
    /\ Alone

\* is_correct_variant(product_name, query) is called.
CallVariant == Return(is_correct_variant(arg.product_name, arg.query))

NextVariant == CallVariant

SpecVariant == InitVariant /\ [][NextVariant]_vars

\* --- extract_from_html

LdName == <<"iPhone", "15">>
OgName == <<"Apple", "iPhone", "15">>

\* The shapes of "offers" in a JSON-LD node: absent, an object (with a price,
\* with a priceSpecification object, null or string, with neither), a list
\* (of numbers, of a string and a number, with a priceSpecification that is
\* null or a string, empty).
LdOffers ==
    { [shape |-> "none", offers |-> <<>>],
      [shape |-> "dict", offers |-> <<Offer(PyInt(76999), "absent", PyNone)>>],
      [shape |-> "dict", offers |-> <<Offer(PyNone, "dict", PyInt(79999))>>],
      [shape |-> "dict", offers |-> <<Offer(PyNone, "null", PyNone)>>],
      [shape |-> "dict", offers |-> <<Offer(PyNone, "nondict", PyNone)>>],
      [shape |-> "dict", offers |-> <<Offer(PyNone, "absent", PyNone)>>],
      [shape |-> "list", offers |-> <<>>],
      [shape |-> "list", offers |-> <<Offer(PyInt(79999), "absent", PyNone),
                                      Offer(PyInt(76999), "absent", PyNone)>>],
      [shape |-> "list", offers |-> <<Offer(PyStr(<<"7", "6", "9", "9", "9">>),
                                            "absent", PyNone),
                                      Offer(PyInt(79999), "absent", PyNone)>>],
      [shape |-> "list", offers |-> <<Offer(PyNone, "null", PyNone)>>],
      [shape |-> "list", offers |-> <<Offer(PyNone, "nondict", PyNone)>>] }

LdNodes ==
    { Node(typed, name, o.shape, o.offers) :
        typed \in BOOLEAN, name \in {<<>>, LdName}, o \in LdOffers }

\* The JSON-LD nodes of a page: none, one, or a priced product node before
\* another node.
LdBlocks ==
    {<<>>} \cup { <<n>> : n \in LdNodes }
           \cup { <<Node(TRUE, <<"iPhone">>, "dict",
                         <<Offer(PyInt(50000), "absent", PyNone)>>), n>> :
                    n \in LdNodes }

ExtractPages ==
    { Page(<<>>, og, <<>>, ld, vis, title) :
        og \in {<<>>, OgName}, ld \in LdBlocks,
        vis \in {<<>>, <<"Rs", " ", "7", "9", ",", "9", "9", "9">>},
        title \in {<<>>, <<"", "buy", "">>} }

InitExtract ==
    /\ arg \in [html : ExtractPages, url : {AmazonPdp, ExamplePdp}]
    /\ ret = <<>>
    /\ Alone

\* extract_from_html(html, url) is called.
CallExtract == Return(extract_from_html(arg.html, arg.url))

NextExtract == CallExtract

SpecExtract == InitExtract /\ [][NextExtract]_vars

\* --- _jsonld_offers_price

\* The offer prices of a product node: numbers, and numbers written as
\* strings.
OfferPriceValues ==
    { PyInt(9999), PyInt(10000),
      PyStr(<<"9", "9", "9", "9">>), PyStr(<<"1", "0", "0", "0", "0">>) }

OfferLists ==
    { [i \in 1..Len(ps) |-> Offer(ps[i], "absent", PyNone)] :
        ps \in SeqsUpTo(OfferPriceValues, MaxOffers) }

InitOffers ==
    /\ arg \in { Page(<<>>, <<>>, <<>>, <<Node(TRUE, LdName, "list", os)>>, <<>>, <<>>) :
                   os \in OfferLists }
    /\ ret = <<>>
    /\ Alone

\* _jsonld_offers_price(soup) is called.
CallOffers == Return(_jsonld_offers_price(arg))

NextOffers == CallOffers

SpecOffers == InitOffers /\ [][NextOffers]_vars

\* --- is_probable_pdp

PdpHosts ==
    {<<"www", "amazon", "in">>, <<"www", "flipkart", "com">>,
     <<"www", "croma", "com">>, <<"www", "vijaysales", "com">>,
     <<"www", "apple", "com">>, <<"example", "com">>}

PdpSegments ==
    {"dp", "p", "product", "gp", "itm123", "123", "iphone-15", "search", "s",
     "category", "results", "shop", "buy-iphone"}

PdpKeys == {<<>>, <<"pid">>, <<"q">>, <<"query">>, <<"search">>, <<"pid", "q">>}

PdpUrls ==
    { Url(h, path, keys) :
        h \in PdpHosts, path \in SeqsUpTo(PdpSegments, MaxSegs), keys \in PdpKeys }

InitPdp ==
    /\ arg \in PdpUrls
    /\ ret = <<>>
    /\ Alone

\* is_probable_pdp(url) is called.
CallPdp == Return(is_probable_pdp(arg))

NextPdp == CallPdp

SpecPdp == InitPdp /\ [][NextPdp]_vars

\* --- find_pdp_from_search_html

FindDomains ==
    {<<"amazon", "in">>, <<"flipkart", "com">>, <<"croma", "com">>,
     <<"vijaysales", "com">>, <<"example", "com">>}

\* The hrefs of the anchors: relative ones with /dp/, /p/itm, /p/ and pid=,
\* /product/, none of the markers, and an absolute one with /p/ and pid=.
FindHrefs ==
    {Url(<<>>, <<"dp", "B0">>, <<"ref">>), Url(<<>>, <<"p", "itm123">>, <<>>),
     Url(<<>>, <<"p", "x">>, <<"pid">>), Url(<<>>, <<"product", "123">>, <<>>),
     Url(<<>>, <<"about">>, <<>>),
     Url(<<"dl", "flipkart", "com">>, <<"x", "p", "y">>, <<"pid">>)}

InitFind ==
    /\ arg \in [domain : FindDomains, html : SeqsUpTo(FindHrefs, MaxAnchors),
                base_url : {AmazonSearch}]
    /\ ret = <<>>
    /\ Alone

\* find_pdp_from_search_html(domain, html, base_url) is called.
CallFind == Return(find_pdp_from_search_html(arg.domain, arg.html, arg.base_url))

NextFind == CallFind

SpecFind == InitFind /\ [][NextFind]_vars

\* ------------------------------------------------------------ search.py
\* A text of a search result is a sequence of pieces: a word, a digit, " ",
\* ",", ".", "Rupee" (the rupee sign), "$", "INR" or "Rs". No word of the
\* model is a substring of another word or of two words written together, so
\* that a substring test on the text is a test on its pieces.

CORE_DOMAINS ==
    << <<"amazon", "in">>, <<"flipkart", "com">>, <<"myntra", "com">>,
       <<"ajio", "com">> >>

ALLOWED_PLATFORMS ==
    {"amazon", "flipkart", "croma", "reliance digital", "reliancedigital",
     "myntra", "ajio", "meesho", "tatacliq", "shopclues", "pepperfry", "nykaa",
     "firstcry", "grofers"}

\* The pieces that are neither letters nor digits.
NonAlnum == {" ", ",", ".", "/", "Rupee", "$"}
IsAlnum(c) == c \notin NonAlnum

\* str.lower() on a piece.
LowerPiece(w) ==
    CASE w = "Apple" -> "apple"
      [] w = "EMI"   -> "emi"
      [] w = "INR"   -> "inr"
      [] w = "Rs"    -> "rs"
      [] OTHER       -> Lower(w)

LowerText(s) == [i \in 1..Len(s) |-> LowerPiece(s[i])]

\* f"{a} {b}"
Joined(a, b) == a \o <<" ">> \o b

\* needle in hay
Contains(hay, needle) ==
    \E i \in 0..(Len(hay) - Len(needle)) :
        SubSeq(hay, i + 1, i + Len(needle)) = needle

\* \b at both ends of the pieces i..j of s.
Bounded(s, i, j) ==
    /\ (i = 1 \/ ~IsAlnum(s[i - 1]))
    /\ (j = Len(s) \/ ~IsAlnum(s[j + 1]))

\* re.search(r"\b" + k + r"\b", s) for a keyword k of one or more words.
HasKeyword(s, k) ==
    \E i \in 1..(Len(s) - Len(k) + 1) :
        SubSeq(s, i, i + Len(k) - 1) = k /\ Bounded(s, i, i + Len(k) - 1)

\* The decimals (?:\.[0-9]{2})? after position e: the last position of the
\* group.
WithDecimals(s, e) ==
    IF e + 3 <= Len(s) /\ s[e + 1] = "." /\ IsDigit(s[e + 2]) /\ IsDigit(s[e + 3])
    THEN e + 3 ELSE e

\* ([0-9][0-9,]*(?:\.[0-9]{2})?) from position g: the group.
PriceGroup(s, g) == SubSeq(s, g, WithDecimals(s, GroupEnd(s, g)))

\* A pattern that starts with a mark (the rupee sign, "$", or "Rs" and an
\* optional dot) matched at position i: the position of the group, or 0.
MarkAt(s, i, mark) ==
    IF s[i] # mark THEN 0
    ELSE DigitAt(s, SkipSpaces(s, IF mark = "Rs" /\ i + 1 <= Len(s) /\ s[i + 1] = "."
                                  THEN i + 2 ELSE i + 1))

MarkHits(s, mark) == { i \in 1..Len(s) : MarkAt(s, i, mark) # 0 }

\* The pattern that ends with INR matched at position i.
InrAfter(s, j) == j <= Len(s) /\ s[j] = "INR"

InrAt(s, i) ==
    IsDigit(s[i]) /\ InrAfter(s, SkipSpaces(s, WithDecimals(s, GroupEnd(s, i)) + 1))

InrHits(s) == { i \in 1..Len(s) : InrAt(s, i) }

\* _extract_price_from_text(text): group 1 of the leftmost match of the first
\* of PRICE_PATTERNS that matches, or <<>> for None.
_extract_price_from_text(text) ==
    IF MarkHits(text, "Rupee") # {}
        THEN PriceGroup(text, MarkAt(text, Least(MarkHits(text, "Rupee")), "Rupee"))
    ELSE IF MarkHits(text, "$") # {}
        THEN PriceGroup(text, MarkAt(text, Least(MarkHits(text, "$")), "$"))
    ELSE IF InrHits(text) # {}
        THEN PriceGroup(text, Least(InrHits(text)))
    ELSE IF MarkHits(text, "Rs") # {}
        THEN PriceGroup(text, MarkAt(text, Least(MarkHits(text, "Rs")), "Rs"))
    ELSE <<>>

IsDigitDotComma(c) == IsDigit(c) \/ c \in {".", ","}

\* The sanity check of _price_str_to_float: 1k to 10 lakh.
InSanityRange(price) ==
    IF price = Raised THEN None
    ELSE IF 1000 * Unit <= price.v /\ price.v <= 1000000 * Unit THEN price
    ELSE None

PriceOfDigits(digits) ==
    IF digits = <<>> THEN None ELSE InSanityRange(FloatOfDigits(digits))

\* _price_str_to_float(price_str)
_price_str_to_float(price_str) ==
    IF price_str = <<>> THEN None
    ELSE PriceOfDigits(SelectSeq(SelectSeq(price_str, IsDigitDotComma), IsNoComma))

IsNotWww(label) == label # "www"

\* host.replace("www.", "")
WithoutWww(host) ==
    IF host = <<>> THEN <<>>
    ELSE SelectSeq(SubSeq(host, 1, Len(host) - 1), IsNotWww) \o <<host[Len(host)]>>

PlatformOfHost(host) ==
    IF host = <<>> THEN "unknown"
    ELSE IF HostHas(host, "amazon") THEN "amazon"
    ELSE IF HostHas(host, "flipkart") THEN "flipkart"
    ELSE IF HostHas(host, "myntra") THEN "myntra"
    ELSE IF HostHas(host, "ajio") THEN "ajio"
    ELSE IF HostHas(host, "meesho") THEN "meesho"
    ELSE IF HostHas(host, "tatacliq") THEN "tatacliq"
    ELSE IF HostHas(host, "shopclues") THEN "shopclues"
    ELSE IF HostHas(host, "pepperfry") THEN "pepperfry"
    ELSE IF HostHas(host, "nykaa") THEN "nykaa"
    ELSE IF HostHas(host, "firstcry") THEN "firstcry"
    ELSE IF HostHas(host, "grofers") \/ HostHas(host, "blinkit") THEN "grofers"
    ELSE IF HostHas(host, "croma") THEN "croma"
    ELSE IF HostHas(host, "reliancedigital") \/ HostHas(host, "reliance")
         THEN "reliance digital"
    ELSE host[1]

\* _platform_from_url(u)
_platform_from_url(u) == PlatformOfHost(WithoutWww(u.host))

\* k in host
HostNames(host, K) == \E i \in 1..Len(host) : host[i] \in K

\* The segments of the model that match [a-z0-9-]+-p-[a-z0-9]+ .
SlugPSegments == {"iphone-15-p-itm123"}

LenientHosts ==
    {"meesho", "tatacliq", "shopclues", "pepperfry", "nykaa", "firstcry",
     "grofers", "blinkit"}

\* _looks_like_product_url(u)
_looks_like_product_url(u) ==
    IF HostNames(u.host, {"amazon"})
        THEN \/ SegFollowed(u.path, "dp")
             \/ PairFollowed(u.path, "gp", "product")
             \/ SegFollowed(u.path, "product")
    ELSE IF HostNames(u.host, {"flipkart"})
        THEN \/ SegFollowed(u.path, "p")
             \/ \E i \in 1..Len(u.path) : u.path[i] \in SlugPSegments
    ELSE IF HostNames(u.host, {"myntra"})
        THEN \/ SegFollowed(u.path, "buy")
             \/ \E i \in 1..(Len(u.path) - 1) :
                    u.path[i] \in NumericSegments /\ u.path[i + 1] = "buy"
    ELSE IF HostNames(u.host, {"ajio"}) \/ HostNames(u.host, {"croma"})
        THEN SegFollowed(u.path, "p") \/ SegFollowed(u.path, "product")
    ELSE IF HostNames(u.host, {"reliancedigital"})
        THEN SegFollowed(u.path, "product") \/ SegFollowed(u.path, "pd")
    ELSE IF HostNames(u.host, LenientHosts) THEN TRUE
    ELSE \/ SegFollowed(u.path, "product")
         \/ SegFollowed(u.path, "p")
         \/ SegFollowed(u.path, "item")
         \/ SegFollowed(u.path, "dp")

StopWords == {"buy", "online", "india", "price", "best", "cheapest", "latest"}

\* re.sub(r"\b" + word + r"\b", "", q) for every stop word.
WithoutStopWords(q) ==
    SelectSeq([i \in 1..Len(q) |->
                  IF q[i] \in StopWords /\ Bounded(q, i, i) THEN "" ELSE q[i]],
              LAMBDA c : c # "")

\* The position of the first blank of s, or Len(s) + 1.
FirstBlank(s) ==
    IF \E i \in 1..Len(s) : s[i] = " "
    THEN Least({ i \in 1..Len(s) : s[i] = " " })
    ELSE Len(s) + 1

RECURSIVE SplitBlanks(_)
\* q.split(): the runs of pieces between blanks.
SplitBlanks(s) ==
    IF s = <<>> THEN <<>>
    ELSE IF s[1] = " " THEN SplitBlanks(Tail(s))
    ELSE <<SubSeq(s, 1, FirstBlank(s) - 1)>>
             \o SplitBlanks(SubSeq(s, FirstBlank(s), Len(s)))

\* The number of characters of a piece (a word of the model has two or more),
\* and of a term.
PieceLen(c) == IF IsDigit(c) \/ c \in NonAlnum THEN 1 ELSE 2

RECURSIVE TermLen(_)
TermLen(term) == IF term = <<>> THEN 0 ELSE PieceLen(Head(term)) + TermLen(Tail(term))

IsCoreTerm(term) == TermLen(term) >= 2

\* _extract_core_product_terms(q)
_extract_core_product_terms(q) ==
    SelectSeq(SplitBlanks(WithoutStopWords(LowerText(q))), IsCoreTerm)

\* _normalize_for_match(text)
_normalize_for_match(text) == SelectSeq(LowerText(text), IsAlnum)

\* ACCESSORY_KEYWORDS
ACCESSORY_KEYWORDS ==
    { <<"case">>, <<"cover">>, <<"back", " ", "cover">>, <<"tempered">>,
      <<"screen", " ", "guard">>, <<"screen", " ", "protector">>,
      <<"glass", " ", "protector">>, <<"charger">>, <<"cable">>, <<"adapter">>,
      <<"strap">>, <<"band">>, <<"earbud">>, <<"earbuds">>, <<"earphone">>,
      <<"earphones">>, <<"headphone">>, <<"headphones">>,
      <<"power", " ", "bank">>, <<"stand">>, <<"holder">>, <<"mount">> }

AccessoryIn(lower) == \E kw \in ACCESSORY_KEYWORDS : HasKeyword(lower, kw)

\* _is_accessory_text(text)
_is_accessory_text(text) == AccessoryIn(LowerText(text))

\* The core terms found in the normalized text.
TermsMatched(core_terms, norm_combined) ==
    { i \in 1..Len(core_terms) :
        Contains(norm_combined, _normalize_for_match(core_terms[i])) }

\* match_ratio >= 0.6
RatioEnough(core_terms, matched) ==
    core_terms # <<>> /\ 5 * Cardinality(matched) >= 3 * Len(core_terms)

MatchesTerms(core_terms, norm_combined) ==
    RatioEnough(core_terms, TermsMatched(core_terms, norm_combined))

\* _product_matches_query(title, snippet, q)
_product_matches_query(title, snippet, q) ==
    /\ ~_is_accessory_text(Joined(title, snippet))
    /\ MatchesTerms(_extract_core_product_terms(q),
                    _normalize_for_match(Joined(title, snippet)))

\* The instalment filter of search_products_sorted on the lowered text.
EmiKeywords ==
    { <<"emi">>, <<"down", " ", "payment">>, <<"monthly">>, <<"/", "month">>,
      <<"per", " ", "month">> }

IsInstalmentText(lower_text) ==
    /\ \E keyword \in EmiKeywords : Contains(lower_text, keyword)
    /\ ~Contains(lower_text, <<"no", " ", "cost", " ", "emi">>)
    /\ ~Contains(lower_text, <<"full", " ", "price">>)

\* The price of a result: _price_str_to_float of the price found in its text.
PriceOfText(text_for_price) ==
    _price_str_to_float(_extract_price_from_text(text_for_price))

\* words[0][0].isupper()
StartsUpper(word) == word # <<>> /\ word[1] \in {"Apple", "Samsung", "Case", "EMI", "INR", "Rs", "Pro"}

FirstWordIfUpper(words) ==
    IF words # <<>> /\ StartsUpper(words[1]) THEN words[1] ELSE <<>>

\* _extract_brand_from_title(title), <<>> for None; of KNOWN_BRANDS the model
\* holds Apple and Samsung.
_extract_brand_from_title(title) ==
    IF title = <<>> THEN <<>>
    ELSE IF HasKeyword(LowerText(title), <<"apple">>) THEN <<"Apple">>
    ELSE IF HasKeyword(LowerText(title), <<"samsung">>) THEN <<"Samsung">>
    ELSE FirstWordIfUpper(SplitBlanks(title))

\* A result of the search service. image is what the image strategies of
\* _extract_image_from_result and the scan of the snippet find for it ("" for
\* nothing).
SearchResult(u, title, content, image) ==
    [url |-> u, title |-> title, content |-> content, image |-> image]

\* Mutant of IsOffer: seen_urls is not looked at.
IsOfferSeenOrNot(r, seen, q) ==
    /\ _platform_from_url(r.url) \in ALLOWED_PLATFORMS
    /\ _looks_like_product_url(r.url)
    /\ _product_matches_query(r.title, r.content, q)
    /\ ~IsInstalmentText(LowerText(Joined(r.title, r.content)))
    /\ PriceOfText(Joined(r.title, r.content)) # None

\* The body of the loop over the results up to the price: result r is not
\* skipped by any continue.
IsOffer(r, seen, q) ==
    /\ r.url \notin seen
    /\ _platform_from_url(r.url) \in ALLOWED_PLATFORMS
    /\ _looks_like_product_url(r.url)
    /\ _product_matches_query(r.title, r.content, q)
    /\ ~IsInstalmentText(LowerText(Joined(r.title, r.content)))
    /\ PriceOfText(Joined(r.title, r.content)) # None

\* The offer appended for result r.
OfferOf(r) ==
    [name |-> r.title, brand |-> _extract_brand_from_title(r.title),
     platform |-> _platform_from_url(r.url),
     currentPrice |-> PriceOfText(Joined(r.title, r.content)),
     imageUrl |-> r.image, deepLink |-> r.url]

\* o.get("_price_num") or float("inf")
SortKey(o) ==
    IF o.currentPrice = None \/ (o.currentPrice.k = "num" /\ o.currentPrice.v = 0)
    THEN PosInf ELSE o.currentPrice

RECURSIVE InsertOffer(_, _)
\* o put into a sorted list behind every offer whose key is not greater.
InsertOffer(sorted, o) ==
    IF sorted = <<>> THEN <<o>>
    ELSE IF FLt(SortKey(o), SortKey(sorted[Len(sorted)]))
         THEN Append(InsertOffer(SubSeq(sorted, 1, Len(sorted) - 1), o),
                     sorted[Len(sorted)])
    ELSE Append(sorted, o)

RECURSIVE SortedOffers(_)
\* list.sort(key=...): ascending by key, offers of equal keys in their order.
SortedOffers(offers) ==
    IF offers = <<>> THEN <<>>
    ELSE InsertOffer(SortedOffers(SubSeq(offers, 1, Len(offers) - 1)),
                     offers[Len(offers)])

\* valid_offers[:limit]
Truncated(offers, limit) ==
    SubSeq(offers, 1, IF Len(offers) < limit THEN Len(offers) ELSE limit)

\* float(int(x))
FloatOfInt(x) == IF x = None THEN None ELSE [x EXCEPT !.v = x.v - (x.v % Unit)]

DataOf(o) ==
    [productName |-> o.name, brand |-> o.brand, platform |-> o.platform,
     price |-> FloatOfInt(o.currentPrice), imageUrl |-> o.imageUrl,
     deepLink |-> o.deepLink]

SearchFailed == [success |-> FALSE, data |-> <<>>]

SearchSucceeded(offers) ==
    [success |-> TRUE, data |-> [i \in 1..Len(offers) |-> DataOf(offers[i])]]

\* --- the inputs of search_products_sorted

PhoneTitle == <<"iPhone", " ", "1", "5">>

FlipkartPdp == Url(<<"www", "flipkart", "com">>, <<"iphone-15", "p", "itm123">>, <<>>)
FlipkartPdp2 == Url(<<"www", "flipkart", "com">>, <<"iphone-15", "p", "itm456">>, <<>>)
FlipkartPdp3 == Url(<<"www", "flipkart", "com">>, <<"iphone-15", "p", "itm789">>, <<>>)
AmazonPdp2  == Url(<<"www", "amazon", "in">>, <<"dp", "B1">>, <<>>)

\* The results of the model.
R_A79999 ==
    SearchResult(AmazonPdp, PhoneTitle,
                 <<"Rupee", " ", "7", "9", ",", "9", "9", "9">>, "img")
R_B76999 ==
    SearchResult(AmazonPdp2, PhoneTitle,
                 <<"Rs", ".", " ", "7", "6", ",", "9", "9", "9", ".", "5", "0">>, "")
\* the URL of R_A79999 again, with another title and price
R_A74999 ==
    SearchResult(AmazonPdp, <<"Apple", " ", "iPhone", " ", "1", "5">>,
                 <<"Rupee", "7", "4", ",", "9", "9", "9">>, "img")
\* a price below the sanity range
R_F500 ==
    SearchResult(FlipkartPdp, PhoneTitle, <<"Rupee", "5", "0", "0">>, "img")
R_F200 ==
    SearchResult(FlipkartPdp2, PhoneTitle, <<"Rupee", "2", "0", "0">>, "img")
\* no price
R_Unpriced ==
    SearchResult(FlipkartPdp3, PhoneTitle, <<"in", " ", "stock">>, "img")
\* "iPhone 15 INR 64,999": the third pattern finds the 15 before INR
R_Inr ==
    SearchResult(AmazonPdp2, PhoneTitle,
                 <<"INR", " ", "6", "4", ",", "9", "9", "9">>, "")
R_Case ==
    SearchResult(AmazonPdp2, <<"iPhone", " ", "1", "5", " ", "Case">>,
                 <<"Rupee", "1", ",", "2", "9", "9">>, "img")
R_Emi ==
    SearchResult(AmazonPdp2, PhoneTitle,
                 <<"EMI", " ", "Rupee", "3", ",", "9", "9", "9">>, "img")
R_Listing ==
    SearchResult(AmazonSearch, PhoneTitle,
                 <<"Rupee", "7", "9", ",", "9", "9", "9">>, "img")
R_Example ==
    SearchResult(ExamplePdp, PhoneTitle,
                 <<"Rupee", "7", "9", ",", "9", "9", "9">>, "img")

\* What one call of tavily_client.search gives: an exception, or results.
TavilyAnswers ==
    { [err |-> TRUE, results |-> <<>>] }
    \cup { [err |-> FALSE, results |-> rs] :
             rs \in { <<>>, <<R_A79999>>, <<R_B76999, R_A74999>>,
                      <<R_F500, R_F200, R_Unpriced>>, <<R_Inr, R_Case>>,
                      <<R_Emi, R_Listing, R_Example>> } }

SearchQueries ==
    { <<"iPhone", " ", "1", "5">>, <<"buy", " ", "iPhone", " ", "1", "5", " ", "Pro">>,
      <<"buy">> }

Limits == {1, 25}

\* --- search_products_sorted(query, limit)

InitSearch ==
    /\ AtRest
    /\ arg = <<>>
    /\ ret = <<>>
    /\ TwiceAtRest
    /\ RefreshAtRest
    /\ UpdateAtRest
    /\ s_pc = "search"
    /\ s_query \in SearchQueries
    /\ s_limit \in Limits
    /\ s_domain = 1
    /\ all_results = <<>>
    /\ s_next = 1
    /\ valid_offers = <<>>
    /\ seen_urls = {}
    /\ s_ret = <<>>

\* One turn of the loop over CORE_DOMAINS: the results of the search are
\* added, a failure of the search is passed over.
TavilySearch ==
    /\ s_pc = "search"
    /\ s_domain <= Len(CORE_DOMAINS)
    /\ \E res \in TavilyAnswers :
         all_results' = IF res.err THEN all_results ELSE all_results \o res.results
    /\ s_domain' = s_domain + 1
    /\ UNCHANGED <<s_pc, s_query, s_limit, s_next, valid_offers, seen_urls, s_ret,
                   pipeVars, twiceVars, priceVars, fnVars, refreshVars, updateVars>>

\* Every domain is searched: no result at all ends the call.
Gathered ==
    /\ s_pc = "search"
    /\ s_domain > Len(CORE_DOMAINS)
    /\ IF all_results = <<>>
       THEN s_ret' = <<SearchFailed>> /\ s_pc' = "done"
       ELSE s_pc' = "filter" /\ UNCHANGED s_ret
    /\ UNCHANGED <<s_query, s_limit, s_domain, all_results, s_next, valid_offers,
                   seen_urls, pipeVars, twiceVars, priceVars, fnVars, refreshVars, updateVars>>

\* One turn of the loop over the results.
FilterResult ==
    /\ s_pc = "filter"
    /\ s_next <= Len(all_results)
    /\ IF IsOffer(all_results[s_next], seen_urls, s_query)
       THEN /\ valid_offers' = Append(valid_offers, OfferOf(all_results[s_next]))
            /\ seen_urls' = seen_urls \cup {all_results[s_next].url}
       ELSE UNCHANGED <<valid_offers, seen_urls>>
    /\ s_next' = s_next + 1
    /\ UNCHANGED <<s_pc, s_query, s_limit, s_domain, all_results, s_ret,
                   pipeVars, twiceVars, priceVars, fnVars, refreshVars, updateVars>>

\* The loop is over: no offer ends the call, else the offers are sorted, cut
\* to limit and returned.
SearchReturn ==
    /\ s_pc = "filter"
    /\ s_next > Len(all_results)
    /\ s_ret' = IF valid_offers = <<>> THEN <<SearchFailed>>
                ELSE <<SearchSucceeded(Truncated(SortedOffers(valid_offers), s_limit))>>
    /\ s_pc' = "done"
    /\ UNCHANGED <<s_query, s_limit, s_domain, all_results, s_next, valid_offers,
                   seen_urls, pipeVars, twiceVars, priceVars, fnVars, refreshVars, updateVars>>

NextSearch ==
    \/ TavilySearch
    \/ Gathered
    \/ FilterResult
    \/ SearchReturn

SpecSearch == InitSearch /\ [][NextSearch]_vars

\* ------------------------------------------------------------ update.py
\* The product table and refresh_all_products_lowest_prices(db), called by
\* POST /v1/update/prices on a session of its own.

\* The attributes of Product that are mapped to columns.
MappedAttributes == {"pid", "name", "currentPrice", "lastLowestPrice",
                     "isPriceDropped", "imageUrl", "desc", "deepLink"}

\* A row of the table; a flag is "null", "false" or "true".
Row(pid, currentPrice, lastLowestPrice, isPriceDropped, deepLink) ==
    [pid |-> pid, currentPrice |-> currentPrice,
     lastLowestPrice |-> lastLowestPrice, isPriceDropped |-> isPriceDropped,
     deepLink |-> deepLink]

\* The object db.query(Product).all() loads for a row: its mapped attributes,
\* and the attributes set on the instance that no column is mapped to (none).
Loaded(row) ==
    [pid |-> row.pid, currentPrice |-> row.currentPrice,
     lastLowestPrice |-> row.lastLowestPrice,
     isPriceDropped |-> row.isPriceDropped, deepLink |-> row.deepLink,
     set |-> {}, last_lowest_price |-> None, current_price |-> None,
     is_price_dropped |-> "null"]

\* product.last_lowest_price can be read: it is mapped, or was set before.
HasLastLowestPrice(product) ==
    "last_lowest_price" \in MappedAttributes \cup product.set

\* The assignments of the loop body to a product whose last_lowest_price
\* reads as old_last_lowest.
Assigned(product, new_price, old_last_lowest) ==
    [product EXCEPT
        !.current_price = new_price,
        !.last_lowest_price =
            IF old_last_lowest = None \/ FLt(new_price, old_last_lowest)
            THEN new_price ELSE old_last_lowest,
        !.is_price_dropped =
            IF old_last_lowest # None /\ FLt(new_price, old_last_lowest)
            THEN "true" ELSE "false",
        !.set = product.set \cup {"current_price", "last_lowest_price",
                                  "is_price_dropped", "image_url", "deep_link",
                                  "platform"}]

\* db.commit(): the mapped attributes of the objects are written to the rows.
Committed(objects) ==
    [i \in 1..Len(objects) |->
        Row(objects[i].pid, objects[i].currentPrice, objects[i].lastLowestPrice,
            objects[i].isPriceDropped, objects[i].deepLink)]

\* What find_lowest_price_offer(query) returns: a failure and its reason, or
\* the lowest offer found, whose price passed _price_str_to_float.
OfferPrices == {Num(60000), Num(75000), Num(80000)}

OfferResults ==
    { [success |-> FALSE, reason |-> r, price_num |-> None] :
        r \in {"tavily_error", "no_results", "no_priced_offer"} }
    \cup { [success |-> TRUE, reason |-> "ok", price_num |-> p] : p \in OfferPrices }

\* The rows a product can have before the first call.
StoredRows(pid) ==
    { Row(pid, None, None, "null", NoUrl) }
    \cup { Row(pid, c, l, f, AmazonPdp) :
              c \in {Num(60000), Num(80000)}, l \in {None, Num(70000)},
              f \in {"null", "false", "true"} }

Tables ==
    UNION { { t \in [1..n -> UNION { StoredRows(pid) : pid \in 1..n }] :
                \A i \in 1..n : t[i].pid = i } : n \in 0..MaxProducts }

InitRefresh ==
    /\ AtRest
    /\ arg = <<>>
    /\ ret = <<>>
    /\ TwiceAtRest
    /\ SearchAtRest
    /\ UpdateAtRest
    /\ db \in Tables
    /\ products = <<>>
    /\ r_pc = "idle"
    /\ r_next = 1
    /\ updated = 0
    /\ failed = <<>>
    /\ offers_found = <<>>
    /\ runs = 0

\* POST /v1/update/prices: a session is opened and the products are loaded.
RefreshStart ==
    /\ r_pc \in {"idle", "returned", "raised"}
    /\ runs < MaxRuns
    /\ runs' = runs + 1
    /\ products' = [i \in 1..Len(db) |-> Loaded(db[i])]
    /\ r_pc' = "loop"
    /\ r_next' = 1
    /\ updated' = 0
    /\ failed' = <<>>
    /\ offers_found' = <<>>
    /\ UNCHANGED <<db, pipeVars, twiceVars, priceVars, fnVars, searchVars, updateVars>>

\* The loop body on a product an offer was found for: reading
\* product.last_lowest_price raises AttributeError unless the attribute
\* exists, and the session is closed with nothing committed.
RefreshFound(new_price) ==
    /\ offers_found' = Append(offers_found,
                              [pid |-> products[r_next].pid, price |-> new_price,
                               before |-> db[r_next].currentPrice])
    /\ IF HasLastLowestPrice(products[r_next])
       THEN /\ products' = [products EXCEPT ![r_next] =
                               Assigned(@, new_price, @.last_lowest_price)]
            /\ updated' = updated + 1
            /\ r_next' = r_next + 1
            /\ UNCHANGED r_pc
       ELSE /\ r_pc' = "raised"
            /\ UNCHANGED <<products, updated, r_next>>
    /\ UNCHANGED failed

\* One turn of the loop over the products.
RefreshProduct ==
    /\ r_pc = "loop"
    /\ r_next <= Len(products)
    /\ \E res \in OfferResults :
         IF ~res.success
         THEN /\ failed' = Append(failed, [pid |-> products[r_next].pid,
                                           reason |-> res.reason])
              /\ r_next' = r_next + 1
              /\ UNCHANGED <<products, r_pc, updated, offers_found>>
         ELSE RefreshFound(res.price_num)
    /\ UNCHANGED <<db, runs, pipeVars, twiceVars, priceVars, fnVars, searchVars, updateVars>>

\* The loop is over: db.commit(), and the counts are returned.
RefreshCommit ==
    /\ r_pc = "loop"
    /\ r_next > Len(products)
    /\ db' = Committed(products)
    /\ r_pc' = "returned"
    /\ UNCHANGED <<products, r_next, updated, failed, offers_found, runs,
                   pipeVars, twiceVars, priceVars, fnVars, searchVars, updateVars>>

NextRefresh ==
    \/ RefreshStart
    \/ RefreshProduct
    \/ RefreshCommit

SpecRefresh == InitRefresh /\ [][NextRefresh]_vars

\* update_product_lowest_price(db, product_id) on an offer found: the
\* product as db.get loads it, and the row the commit leaves, unless reading
\* product.last_lowest_price raises AttributeError.
LowestPriceFound(row, new_price) ==
    IF HasLastLowestPrice(Loaded(row))
    THEN [raised |-> FALSE,
          row |-> Committed(<<Assigned(Loaded(row), new_price,
                                       Loaded(row).last_lowest_price)>>)[1]]
    ELSE [raised |-> TRUE, row |-> row]

\* What the call returns (ret), and what it leaves in the table.
LowestPriceOutcome(product_id, res) ==
    IF product_id \notin 1..Len(db)
    THEN /\ ret' = <<[success |-> FALSE, reason |-> "product_not_found"]>>
         /\ UNCHANGED <<db, offers_found>>
    ELSE IF ~res.success
    THEN /\ ret' = <<[success |-> FALSE, reason |-> res.reason]>>
         /\ UNCHANGED <<db, offers_found>>
    ELSE /\ offers_found' = <<[pid |-> product_id, price |-> res.price_num,
                               before |-> db[product_id].currentPrice]>>
         /\ db' = [db EXCEPT ![product_id] =
                       LowestPriceFound(@, res.price_num).row]
         /\ ret' = IF LowestPriceFound(db[product_id], res.price_num).raised
                   THEN <<[success |-> FALSE, reason |-> "AttributeError"]>>
                   ELSE <<[success |-> TRUE, reason |-> "updated"]>>

\* One call of update_product_lowest_price, no other call being under way.
update_product_lowest_price ==
    /\ r_pc # "loop"
    /\ runs < MaxRuns
    /\ runs' = runs + 1
    /\ \E product_id \in 1..(Len(db) + 1), res \in OfferResults :
         LowestPriceOutcome(product_id, res)
    /\ UNCHANGED <<arg, products, r_pc, r_next, updated, failed, pipeVars,
                   twiceVars, priceVars, searchVars, updateVars>>

NextLowest ==
    \/ NextRefresh
    \/ update_product_lowest_price

SpecLowest == InitRefresh /\ [][NextLowest]_vars

\* ------------------------------------------------------ update_product.py
\* update_single_product_lowest(db, pid, domains), called one call after the
\* other on the product table.

\* float(x) on a value: OverflowError on an int beyond the floats, ValueError
\* on a string that is not a number once its outer blanks are dropped.
RECURSIVE StripBlanks(_)
StripBlanks(cs) ==
    IF cs = <<>> THEN cs
    ELSE IF cs[1] = " " THEN StripBlanks(Tail(cs))
    ELSE IF cs[Len(cs)] = " " THEN StripBlanks(SubSeq(cs, 1, Len(cs) - 1))
    ELSE cs

FloatOfChars(cs) ==
    IF \A i \in 1..Len(cs) : IsDigitOrDot(cs[i]) THEN FloatOfDigits(cs) ELSE Raised

float(x) ==
    CASE x.t = "int"   -> IF x.k = "big" THEN Raised ELSE Num(x.n)
      [] x.t = "float" -> [k |-> x.k, v |-> x.n]
      [] x.t = "str"   -> FloatOfChars(StripBlanks(x.s))
      [] OTHER         -> Raised

\* The domains arguments of the calls, <<>> being None, and the setting
\* get_india_domains() reads.
UpdateDomainLists == {<<>>, <<AMAZON>>, <<EXAMPLE, AMAZON>>}
UpdateEnvDomains == <<AMAZON, EXAMPLE>>

\* What the search service and the sites answer to these calls.
UpdateSearchResponses ==
    { [err |-> TRUE, status |-> 0, results |-> <<>>] }
    \cup { [err |-> FALSE, status |-> 200, results |-> r] :
             r \in {<<>>, <<AmazonPdp>>, <<ExamplePdp>>} }

UpdateSiteResponses ==
    { [err |-> TRUE, status |-> 0, text |-> EmptyPage],
      [err |-> FALSE, status |-> 404,
       text |-> ProductPage(Phone, <<"mobiles">>, PyInt(76999))] }
    \cup { [err |-> FALSE, status |-> 200, text |-> pg] :
             pg \in { EmptyPage,
                      ProductPage(Phone, <<"mobiles">>, PyInt(76999)),
                      ProductPage(Phone, <<"mobiles">>, PyInt(79999)),
                      ProductPage(Phone, <<"mobiles">>, PyNone),
                      ProductPage(Phone, <<>>, PyFloat(NaN)),
                      ProductPage(Phone, <<>>, PyBigInt),
                      \* the price as visible text "Rs 79,999"
                      Page(<<>>, Phone, <<>>, <<>>,
                           <<"Rs", " ", "7", "9", ",", "9", "9", "9">>, <<"buy">>) } }

\* Lines 42 to 47: the product is looked up; the call returns not_found, or
\* goes on to resolve the domains.
UpdateStart ==
    /\ u_pc \in {"idle", "returned", "raised"}
    /\ runs < MaxRuns
    /\ runs' = runs + 1
    /\ \E pid \in 1..(Len(db) + 1), d \in UpdateDomainLists :
         /\ u_pid' = pid
         /\ IF pid \notin 1..Len(db)
            THEN /\ u_pc' = "returned"
                 /\ u_ret' = <<[status |-> "not_found", details |-> <<>>]>>
                 /\ u_domains' = <<>>
            ELSE /\ u_pc' = "resolve"
                 /\ u_ret' = <<>>
                 /\ u_domains' = IF d # <<>> THEN d
                                 ELSE get_india_domains(UpdateEnvDomains)
    /\ u_map' = <<>>
    /\ u_li' = 1
    /\ u_found' = <<>>
    /\ u_details' = <<>>
    /\ UNCHANGED <<u_log, db, products, r_pc, r_next, updated, failed,
                   offers_found, pipeVars, twiceVars, priceVars, fnVars,
                   searchVars>>

\* resolve_urls_all_sites(query, domains): the next domain (u_li counts the
\* domains here) is resolved, an exception leaving the call.
UpdateResolve ==
    /\ u_pc = "resolve"
    /\ u_li <= Len(u_domains)
    /\ \E resp \in UpdateSearchResponses :
         IF resolve_url_for_domain(resp, u_domains[u_li]).exc # "none"
         THEN /\ u_pc' = "raised"
              /\ UNCHANGED <<u_map, u_li>>
         ELSE /\ u_map' = DictSet(u_map, u_domains[u_li],
                                  resolve_url_for_domain(resp, u_domains[u_li]).url)
              /\ u_li' = u_li + 1
              /\ UNCHANGED u_pc
    /\ UNCHANGED <<u_pid, u_domains, u_found, u_details, u_ret, u_log,
                   refreshVars, pipeVars, twiceVars, priceVars, fnVars,
                   searchVars>>

\* Every domain is resolved: the loop over domain_to_url starts.
UpdateResolved ==
    /\ u_pc = "resolve"
    /\ u_li > Len(u_domains)
    /\ u_pc' = "loop"
    /\ u_li' = 1
    /\ UNCHANGED <<u_pid, u_domains, u_map, u_found, u_details, u_ret, u_log,
                   refreshVars, pipeVars, twiceVars, priceVars, fnVars,
                   searchVars>>

\* The loop goes on to the next entry with one more detail.
UpdateContinue(detail) ==
    /\ u_details' = Append(u_details, detail)
    /\ u_li' = u_li + 1
    /\ UNCHANGED u_pc

\* An exception leaves the call: nothing is committed.
UpdateRaise ==
    /\ u_pc' = "raised"
    /\ UNCHANGED <<u_li, u_found, u_details>>

\* Lines 66 to 74: the price of the page, float(price) raising or not.
UpdatePriced(entry, price, link) ==
    IF price = PyNone
    THEN UpdateContinue(Detail(entry.domain, "no_price", entry.url, <<>>, None, <<>>))
         /\ UNCHANGED u_found
    ELSE IF float(price) = Raised
    THEN UpdateRaise
    ELSE /\ u_found' = Append(u_found, [domain |-> entry.domain,
                                        price |-> float(price), link |-> link])
         /\ UpdateContinue(Detail(entry.domain, "ok", link, <<>>, float(price), <<>>))

\* Line 65: extract_from_html may raise.
UpdateExtracted(entry, data) ==
    IF data.exc # "none" THEN UpdateRaise
    ELSE UpdatePriced(entry, data.price_value,
                      IF data.deep_link # NoUrl THEN data.deep_link ELSE entry.url)

\* Lines 60 to 63: the page is fetched.
UpdateFetched(entry, f) ==
    IF f.raised THEN UpdateRaise
    ELSE IF f.code # 200 \/ f.html.empty
    THEN UpdateContinue(Detail(entry.domain, HttpStatus(f.code), entry.url,
                               <<>>, None, <<>>))
         /\ UNCHANGED u_found
    ELSE UpdateExtracted(entry, extract_from_html(f.html, entry.url))

\* One turn of the loop over domain_to_url.
UpdateDomain ==
    /\ u_pc = "loop"
    /\ u_li <= Len(u_map)
    /\ IF u_map[u_li].url = NoUrl
       THEN UpdateContinue(NoUrlDetail(u_map[u_li].domain)[1]) /\ UNCHANGED u_found
       ELSE \E resp \in UpdateSiteResponses :
                UpdateFetched(u_map[u_li], fetch_html(resp))
    /\ UNCHANGED <<u_pid, u_domains, u_map, u_ret, u_log, refreshVars, pipeVars,
                   twiceVars, priceVars, fnVars, searchVars>>

\* Mutant of PriceUpdateRules: lastLowestPrice keeps the lower of the stored
\* lowest and the new price.
PriceUpdateRulesKeepLowest(product, best) ==
    [product EXCEPT
        !.currentPrice = best.price,
        !.deepLink = best.link,
        !.isPriceDropped =
            IF product.currentPrice # None /\ FLt(best.price, product.currentPrice)
            THEN "true" ELSE "false",
        !.lastLowestPrice =
            IF product.lastLowestPrice = None
               \/ FLt(best.price, product.lastLowestPrice)
            THEN best.price ELSE product.lastLowestPrice]

\* Lines 84 to 98: the assignments to the product, old_price being its
\* currentPrice.
PriceUpdateRules(product, best) ==
    [product EXCEPT
        !.currentPrice = best.price,
        !.deepLink = best.link,
        !.isPriceDropped =
            IF product.currentPrice # None /\ FLt(best.price, product.currentPrice)
            THEN "true" ELSE "false",
        !.lastLowestPrice =
            IF product.currentPrice = None THEN best.price
            ELSE product.currentPrice]

\* Lines 101 to 114: the product is committed and the summary returned.
UpdateCommitted(best) ==
    /\ db' = [db EXCEPT ![u_pid] = PriceUpdateRules(@, best)]
    /\ u_log' = Append(u_log, [pid |-> u_pid, before |-> db[u_pid],
                               found |-> u_found])
    /\ u_ret' = <<[status |-> "ok", details |-> u_details]>>

\* Mutant of UpdateFinish: with no offer found the flag of the product is
\* cleared before the call returns.
UpdateFinishClearsFlag ==
    /\ u_pc = "loop"
    /\ u_li > Len(u_map)
    /\ u_pc' = "returned"
    /\ IF _choose_lowest(u_found) = <<>>
       THEN /\ u_ret' = <<[status |-> "no_price_any_domain", details |-> u_details]>>
            /\ db' = [db EXCEPT ![u_pid].isPriceDropped = "false"]
            /\ UNCHANGED u_log
       ELSE UpdateCommitted(_choose_lowest(u_found)[1])
    /\ UNCHANGED <<u_pid, u_domains, u_map, u_li, u_found, u_details, products,
                   r_pc, r_next, updated, failed, offers_found, runs, pipeVars,
                   twiceVars, priceVars, fnVars, searchVars>>

\* Lines 77 to 79 and on: no offer and nothing is written, or the lowest
\* offer is stored.
UpdateFinish ==
    /\ u_pc = "loop"
    /\ u_li > Len(u_map)
    /\ u_pc' = "returned"
    /\ IF _choose_lowest(u_found) = <<>>
       THEN /\ u_ret' = <<[status |-> "no_price_any_domain", details |-> u_details]>>
            /\ UNCHANGED <<db, u_log>>
       ELSE UpdateCommitted(_choose_lowest(u_found)[1])
    /\ UNCHANGED <<u_pid, u_domains, u_map, u_li, u_found, u_details, products,
                   r_pc, r_next, updated, failed, offers_found, runs, pipeVars,
                   twiceVars, priceVars, fnVars, searchVars>>

\* The tables the calls start from: a product is new, or holds the prices of
\* earlier calls.
UpdateRows(pid) ==
    { Row(pid, None, None, "null", NoUrl),
      Row(pid, Num(80000), Num(70000), "false", AmazonPdp),
      Row(pid, Num(60000), Num(70000), "true", AmazonPdp) }

UpdateTables ==
    UNION { { t \in [1..n -> UNION { UpdateRows(pid) : pid \in 1..n }] :
                \A i \in 1..n : t[i].pid = i } : n \in 0..MaxProducts }

InitUpdate ==
    /\ AtRest
    /\ arg = <<>>
    /\ ret = <<>>
    /\ TwiceAtRest
    /\ SearchAtRest
    /\ UpdateAtRest
    /\ db \in UpdateTables
    /\ products = <<>>
    /\ r_pc = "idle"
    /\ r_next = 1
    /\ updated = 0
    /\ failed = <<>>
    /\ offers_found = <<>>
    /\ runs = 0

NextUpdate ==
    \/ UpdateStart
    \/ UpdateResolve
    \/ UpdateResolved
    \/ UpdateDomain
    \/ UpdateFinish

SpecUpdate == InitUpdate /\ [][NextUpdate]_vars

\* The two flows on one table, a call starting when no other is under way.
NextStore ==
    \/ (r_pc # "loop" /\ NextUpdate)
    \/ (u_pc \notin {"resolve", "loop"} /\ NextRefresh)

SpecStore == InitUpdate /\ [][NextStore]_vars

\* ---------------------------------------------------------------- claims

\* The call has returned a value (it has neither raised nor is it under way).
HasReturned == pc = "done"

Rejections == {"query_is_accessory", "query_missing_model_keyword"}

RECURSIVE Distinct(_)
\* The elements of a sequence in the order of their first occurrence.
Distinct(s) ==
    IF s = <<>> THEN <<>>
    ELSE IF \E i \in 1..(Len(s) - 1) : s[i] = s[Len(s)]
         THEN Distinct(SubSeq(s, 1, Len(s) - 1))
         ELSE Append(Distinct(SubSeq(s, 1, Len(s) - 1)), s[Len(s)])

\* The domains of a list of diagnostics, in order.
DomainsOf(ds) == [i \in 1..Len(ds) |-> ds[i].domain]

\* C1, as stated: every call that returns, whatever the outcome, returns one
\* diagnostic per requested domain, len(details) == len(domains).
C1_OnePerRequestedDomain ==
    HasReturned => Len(result.details) = Len(EffectiveDomains)

\* C1, amended: a validation rejection returns no diagnostics; every other
\* return (no_deal or ok) holds exactly one diagnostic per distinct domain of
\* the list in use (the list passed, or the configured one when none or an
\* empty one is passed), in the order of first occurrence.
C1_OnePerDistinctDomain ==
    HasReturned =>
        IF result.status \in Rejections
        THEN result.details = <<>>
        ELSE DomainsOf(result.details) = Distinct(EffectiveDomains)

\* C1: a call over two different domains has returned its two diagnostics.
C1_Witness ==
    /\ HasReturned
    /\ result.status \in {"ok", "no_deal"}
    /\ Len(result.details) = 2
    /\ result.details[1].domain # result.details[2].domain

\* C2, as stated: a failure of the resolver or of the fetcher for one domain
\* never makes preview_lowest_by_name raise; the call goes on to a result.
C2_NoDomainFailureAborts ==
    ~(pc = "raised" /\ exc.from \in {"resolve_url_for_domain", "fetch_html"})

\* C3: a query validate_query rejects is answered with the reason as status
\* and no diagnostics, and no resolver call or page fetch is ever made for it.
C3_RejectionBeforeNetwork ==
    /\ (pc # "validate" /\ looks_like_accessory(query)) =>
          /\ HasReturned
          /\ result.status = "query_is_accessory"
          /\ result.details = <<>>
          /\ calls = <<>>
    /\ (pc # "validate" /\ ~looks_like_accessory(query)
                        /\ ~query_targets_iphone15(query)) =>
          /\ HasReturned
          /\ result.status = "query_missing_model_keyword"
          /\ result.details = <<>>
          /\ calls = <<>>
    /\ (result.status \in Rejections => calls = <<>> /\ inflight = Idle)

\* C3: scenario A, "iPhone 15 case", has been rejected without a call.
C3_Witness ==
    /\ HasReturned
    /\ query = <<"iPhone", "15", "case">>
    /\ result.status = "query_is_accessory"
    /\ calls = <<>>

\* C4, as stated: the call returns no_deal exactly when there is no
\* candidate; otherwise the candidate returned has the minimum price of all
\* candidates, the earliest of those with that price.
C4_SelectsMinimum ==
    (HasReturned /\ result.status \notin Rejections) =>
        /\ (result.status = "no_deal") <=> (found = <<>>)
        /\ result.status = "ok" =>
             \E i \in 1..Len(found) :
                /\ result.selected_domain = found[i].domain
                /\ result.currentPrice = found[i].price
                /\ \A j \in 1..Len(found) :
                      j # i => FGe(found[j].price, found[i].price)
                /\ \A j \in 1..(i - 1) : found[j].price # found[i].price

\* The status the order accessory, variant, category, price gives a page.
C5_Expected(e, s) ==
    /\ (s = "rejected_accessory") <=> looks_like_accessory(e.name)
    /\ (s = "variant_mismatch") <=>
          (~looks_like_accessory(e.name) /\ ~is_correct_variant(e.name, query))
    /\ (s = "category_mismatch") <=>
          /\ ~looks_like_accessory(e.name)
          /\ is_correct_variant(e.name, query)
          /\ e.category # <<>>
          /\ ~is_phone_category(e.category)
    /\ (s = "no_price") <=>
          /\ ~looks_like_accessory(e.name)
          /\ is_correct_variant(e.name, query)
          /\ (e.category = <<>> \/ is_phone_category(e.category))
          /\ e.price = None
    /\ s \in {"rejected_accessory", "variant_mismatch", "category_mismatch",
              "no_price", "ok"}

\* C5: every page extracted is recorded with the status of the first guard it
\* fails in the order accessory, variant, category (only with a category
\* text), then no_price; only a page recorded ok contributes a candidate.
C5_FirstFailingGuard ==
    \A i \in 1..Len(extracted) :
        \E j \in 1..Len(details) :
            /\ details[j].domain = extracted[i].domain
            /\ C5_Expected(extracted[i], details[j].status)
            /\ (details[j].status # "ok") =>
                  ~\E c \in 1..Len(found) : found[c].domain = extracted[i].domain

\* C5: a page that is an accessory, of a wrong category and without a usable
\* price has been recorded as rejected_accessory.
C5_Witness ==
    \E i \in 1..Len(extracted) :
        /\ looks_like_accessory(extracted[i].name)
        /\ extracted[i].category # <<>>
        /\ ~is_phone_category(extracted[i].category)
        /\ extracted[i].price = None
        /\ \E j \in 1..Len(details) :
              /\ details[j].domain = extracted[i].domain
              /\ details[j].status = "rejected_accessory"

\* C6, as stated: every candidate has a finite, non-negative price that is
\* not below the floor of the query, and comes from a page that passed the
\* accessory, variant and category guards.
C6_CandidatesValid ==
    \A c \in 1..Len(found) :
        /\ IsFinite(found[c].price)
        /\ found[c].price.v >= 0
        /\ (min_floor # None => FGe(found[c].price, min_floor))
        /\ \E i \in 1..Len(extracted) :
              /\ extracted[i].domain = found[c].domain
              /\ ~looks_like_accessory(extracted[i].name)
              /\ is_correct_variant(extracted[i].name, query)
              /\ (extracted[i].category = <<>>
                    \/ is_phone_category(extracted[i].category))

\* C7, as stated: fetch_html never raises, and returns a non-empty body only
\* together with status 200.
C7_FetchNeverRaises ==
    /\ ~fetched.raised
    /\ (fetched.nonempty => fetched.code = 200)

\* A network call of the per-domain work starts.
StartsCall == ResolveCall \/ FetchSearchCall \/ FetchPdpCall

\* Some domain of the list in use has had no call yet.
SomeNotStarted ==
    \E d \in Range(domains) : \A i \in 1..Len(calls) : calls[i].domain # d

IsResolve(c) == c.op = "resolve"
IsFetch(c) == c.op = "fetch"

\* The position of a domain among the keys of domain_to_url (0: not a key).
KeyIndex(d) ==
    IF \E i \in 1..Len(domain_to_url) : domain_to_url[i].domain = d
    THEN CHOOSE i \in 1..Len(domain_to_url) : domain_to_url[i].domain = d
    ELSE 0

C9_StrictRespectsFloor ==
    /\ (pstrict # Unset /\ pfloor # None) =>
          (pstrict = None \/ (IsFloat(pstrict) /\ FGe(pstrict, pfloor)))
    /\ (pstrict # Unset /\ ploose # Unset /\ pfloor = None) => pstrict = ploose

\* C10, as stated: parse_price_loose raises for no input, and gives None for a
\* string with no digit, and for one whose digits and dots make no number.
C10_LooseNeverRaises ==
    /\ ploose # Raised
    /\ (ploose # Unset /\ px.t = "str"
          /\ (\A i \in 1..Len(px.s) : ~IsDigit(px.s[i]))) => ploose = None
    /\ (ploose # Unset /\ px.t = "str" /\ PRICE_RX(px.s) = <<>>
          /\ FloatOfDigits(SelectSeq(px.s, IsDigitOrDot)) = Raised) => ploose = None

\* C11: is_correct_variant is false for a name without the model token
\* iPhone 15, and false for a name with one of the words pro, plus, max when
\* the query has none of them; it is false for ("iPhone 15 Pro", "iphone 15")
\* and true for ("iPhone 15", "iphone 15").
C11_VariantGuard ==
    ret # <<>> =>
        /\ ~POSITIVE_IPHONE15(arg.product_name) => ret = <<FALSE>>
        /\ (~NEGATIVE_VARIANTS(arg.query) /\ NEGATIVE_VARIANTS(arg.product_name))
              => ret = <<FALSE>>
        /\ (arg.product_name = <<"iPhone", "15", "Pro">>
              /\ arg.query = <<"iphone", "15">>) => ret = <<FALSE>>
        /\ (arg.product_name = <<"iPhone", "15">>
              /\ arg.query = <<"iphone", "15">>) => ret = <<TRUE>>

\* C11: is_correct_variant("iPhone 15 Pro", "iphone 15") has returned False.
C11_Witness ==
    /\ ret = <<FALSE>>
    /\ arg.product_name = <<"iPhone", "15", "Pro">>
    /\ arg.query = <<"iphone", "15">>

\* C12, as stated: when the query asks for a premium variant and the name
\* has the model token but no premium word, is_correct_variant is false; so
\* is it for ("iPhone 15", "iphone 15 pro").
C12_BaseForPremiumQuery ==
    (ret # <<>> /\ NEGATIVE_VARIANTS(arg.query)
                /\ POSITIVE_IPHONE15(arg.product_name)
                /\ ~NEGATIVE_VARIANTS(arg.product_name)) => ret = <<FALSE>>

\* C13, as stated: the structured data is read before the page metadata and
\* a later tier overwrites nothing, so the product_name of a page with a
\* JSON-LD product name is that name, whatever its og:title.
C13_StructuredNameFirst ==
    (ret # <<>> /\ ret[1].exc = "none"
                /\ _jsonld_offers_price(arg.html).product_name # <<>>) =>
        ret[1].product_name = _jsonld_offers_price(arg.html).product_name

\* C14, as stated: extract_from_html raises for no markup, and the record it
\* returns has deep_link set.
C14_ExtractNeverFails ==
    ret # <<>> => (ret[1].exc = "none" /\ ret[1].deep_link = arg.url)

\* The path segments and the query keys C15 names.
C15_Segments == {"search", "s", "catalog", "browse", "category", "collections",
                 "results"}
C15_Keys == {"q", "query", "search"}

\* C15: is_probable_pdp is false for every URL with a path segment search,
\* s, catalog, browse, category, collections or results, or with a query
\* parameter q, query or search, whatever the host and whatever PDP marker
\* (/dp/, /p/, a numeric segment) the path holds besides.
C15_SearchUrlsRejected ==
    (ret # <<>>
       /\ \/ \E i \in 1..Len(arg.path) : arg.path[i] \in C15_Segments
          \/ \E i \in 1..Len(arg.keys) : arg.keys[i] \in C15_Keys)
    => ret = <<FALSE>>

\* C15: an Amazon URL with /dp/ in its path and a parameter q has been
\* refused.
C15_Witness ==
    /\ ret = <<FALSE>>
    /\ HostHas(arg.host, "amazon")
    /\ SegFollowed(arg.path, "dp")
    /\ ~\E i \in 1..Len(arg.path) : arg.path[i] \in SearchLikeSegments
    /\ \E i \in 1..Len(arg.keys) : arg.keys[i] = "q"

\* The selector of the rule of a domain ("none": the domain has no rule).
C20_Rule(domain) ==
    CASE HostHas(domain, "amazon")     -> "amazon"
      [] HostHas(domain, "flipkart")   -> "flipkart"
      [] HostHas(domain, "croma")      -> "p"
      [] HostHas(domain, "vijaysales") -> "vijaysales"
      [] OTHER                         -> "none"

\* The positions of the anchors that match a selector.
C20_Hits(sel) == { i \in 1..Len(arg.html) : HrefMatches(sel, arg.html[i]) }

\* The anchor at a position, resolved against the base URL without its query.
C20_At(i) == UrlJoin(arg.base_url, arg.html[i])

\* C20: find_pdp_from_search_html returns the first anchor in document order
\* that matches the rule of the domain, even when an anchor matching only the
\* generic markers comes earlier; the first anchor matching the generic
\* markers when the rule of the domain hits nothing; and None only when no
\* anchor matches either.
C20_DomainRuleFirst ==
    ret # <<>> =>
        IF C20_Rule(arg.domain) # "none" /\ C20_Hits(C20_Rule(arg.domain)) # {}
        THEN ret = <<C20_At(Least(C20_Hits(C20_Rule(arg.domain))))>>
        ELSE IF C20_Hits("generic") # {}
        THEN ret = <<C20_At(Least(C20_Hits("generic")))>>
        ELSE ret = <<NoUrl>>

\* C20: on an Amazon page whose first anchor matches only the generic markers
\* and whose second anchor holds /dp/, the second anchor has been returned.
C20_Witness ==
    /\ ret # <<>>
    /\ HostHas(arg.domain, "amazon")
    /\ Len(arg.html) = 2
    /\ HrefMatches("generic", arg.html[1])
    /\ ~HrefMatches("amazon", arg.html[1])
    /\ HrefMatches("amazon", arg.html[2])
    /\ ret = <<C20_At(2)>>

SearchData == s_ret[1].data

\* Result r gets through every filter of the loop but those on its price and
\* on its URL having been seen.
C16_Eligible(r) ==
    /\ _platform_from_url(r.url) \in ALLOWED_PLATFORMS
    /\ _looks_like_product_url(r.url)
    /\ _product_matches_query(r.title, r.content, s_query)
    /\ ~IsInstalmentText(LowerText(Joined(r.title, r.content)))

\* C16: search_products_sorted returns its offers by ascending price, the
\* unpriced ones behind the priced ones: the prices of data never decrease,
\* and a result that gets through the filters, priced (500, 200) or not, is
\* in data unless data is cut to limit.
C16_PricedThenUnpriced ==
    s_pc = "done" =>
        /\ \A j \in 2..Len(SearchData) :
               SearchData[j].price = None
                   \/ (/\ SearchData[j - 1].price # None
                       /\ ~FLt(SearchData[j].price, SearchData[j - 1].price))
        /\ \A i \in 1..Len(all_results) :
               C16_Eligible(all_results[i])
                   => \/ Len(SearchData) = s_limit
                      \/ \E j \in 1..Len(SearchData) :
                             SearchData[j].deepLink = all_results[i].url

\* The indices of the results with the URL of data entry d that are offers.
C17_Occurrences(d) ==
    { i \in 1..Len(all_results) :
        /\ all_results[i].url = d.deepLink
        /\ IsOffer(all_results[i], {}, s_query) }

\* C17: no two entries of data have the same deepLink, and an entry is the
\* first result of its URL that the filters accept.
C17_OneEntryPerLink ==
    s_pc = "done" =>
        /\ \A i, j \in 1..Len(SearchData) :
               i # j => SearchData[i].deepLink # SearchData[j].deepLink
        /\ \A j \in 1..Len(SearchData) :
               /\ C17_Occurrences(SearchData[j]) # {}
               /\ SearchData[j]
                      = DataOf(OfferOf(all_results[Least(C17_Occurrences(SearchData[j]))]))

\* Two accepted results of one URL and different titles were gathered, and
\* data was returned with two entries.
C17_Witness ==
    /\ s_pc = "done"
    /\ s_ret[1].success
    /\ Len(SearchData) = 2
    /\ \E i, j \in 1..Len(all_results) :
           /\ i < j
           /\ all_results[i].url = all_results[j].url
           /\ all_results[i].title # all_results[j].title
           /\ IsOffer(all_results[i], {}, s_query)
           /\ IsOffer(all_results[j], {}, s_query)

\* C18: once a call of refresh_all_products_lowest_prices is over, a product
\* an offer was found for in that call has isPriceDropped true if and only
\* if the price found is strictly less than the current price stored for it
\* before the call.
C18_DroppedIffBelowCurrent ==
    r_pc \in {"returned", "raised"} =>
        \A k \in 1..Len(offers_found) :
            (db[offers_found[k].pid].isPriceDropped = "true")
                <=> (/\ offers_found[k].before # None
                     /\ FLt(offers_found[k].price, offers_found[k].before))

\* The step is the answer to the fetch of a page that is no PDP, and the
\* fetch returned.
C21_SearchPageFetched ==
    /\ pc = "fetch_search_wait"
    /\ pc' # "fetch_search_wait"
    /\ ~fetched'.raised

\* The PDP URL the search-to-PDP resolver finds in the page just fetched.
C21_Candidate ==
    find_pdp_from_search_html(domain_to_url[li].domain, fetched'.anchors, url)

\* C21: a URL that is not classified as a PDP is fetched first; a non-200 or
\* empty response gives the domain the status http_<code>; otherwise the URL
\* the search-to-PDP resolver finds is adopted and fetched as a PDP when it is
\* classified as a PDP, else the domain gets not_pdp_url; in neither of the
\* two failures is a candidate added.
C21_FallbackToPdp ==
    [][ /\ (pc = "loop" /\ pc' \in {"fetch_search", "fetch_pdp"})
            => (pc' = "fetch_search" <=> ~is_probable_pdp(url'))
        /\ (pc = "fetch_search" /\ pc' # pc)
            => (inflight'.op = "fetch" /\ inflight'.url = url
                /\ ~is_probable_pdp(url))
        /\ C21_SearchPageFetched =>
              IF fetched'.code # 200 \/ ~fetched'.nonempty
              THEN /\ details' = Append(details,
                          Detail(domain_to_url[li].domain, HttpStatus(fetched'.code),
                                 url, <<>>, None, <<>>))
                   /\ found' = found /\ pc' = "loop" /\ li' = li + 1
              ELSE IF C21_Candidate # NoUrl /\ is_probable_pdp(C21_Candidate)
              THEN /\ url' = C21_Candidate /\ pc' = "fetch_pdp"
                   /\ details' = details /\ found' = found /\ li' = li
              ELSE /\ details' = Append(details,
                          Detail(domain_to_url[li].domain, "not_pdp_url",
                                 url, <<>>, None, <<>>))
                   /\ found' = found /\ pc' = "loop" /\ li' = li + 1
      ]_vars

\* Scenario B on two domains: the first resolved to a PDP priced 79999, the
\* second to a page that is no PDP, whose PDP found by the resolver is priced
\* 76999 and wins.
C21_Witness ==
    /\ pc = "done"
    /\ result.status = "ok"
    /\ Len(result.details) = 2
    /\ result.details[1].status = "ok"
    /\ result.details[1].price = Num(79999)
    /\ result.selected_domain = domain_to_url[2].domain
    /\ result.currentPrice = Num(76999)
    /\ ~is_probable_pdp(domain_to_url[2].url)
    /\ is_probable_pdp(result.deepLink)
    /\ Len(calls) = 5

\* The calls of the resolver for domain d, and the fetches made for it.
C22_Resolves(d) == { i \in 1..Len(calls) : IsResolve(calls[i]) /\ calls[i].domain = d }
C22_Fetches(d) == { i \in 1..Len(calls) : IsFetch(calls[i]) /\ calls[i].domain = d }

\* No domain has more than two fetches, and two fetches for one domain are
\* the page that is no PDP, then the PDP adopted from it.
C22_FetchesOnce ==
    \A d \in Range(domains) :
        /\ Cardinality(C22_Fetches(d)) <= 2
        /\ \A i, j \in C22_Fetches(d) :
               i < j => /\ calls[i].url # calls[j].url
                        /\ ~is_probable_pdp(calls[i].url)
                        /\ is_probable_pdp(calls[j].url)

\* The step is the answer to a fetch that failed: an exception, a status
\* other than 200, or an empty body.
C22_FetchFailed ==
    /\ pc \in {"fetch_search_wait", "fetch_pdp_wait"}
    /\ pc' # pc
    /\ (fetched'.raised \/ fetched'.code # 200 \/ ~fetched'.nonempty)

\* Between domains and at the end, every fetch made is for a domain the loop
\* is done with; after an exception no call starts.
C22_DomainsClosed ==
    /\ pc \in {"loop", "done"} =>
          \A i \in 1..Len(calls) : IsFetch(calls[i]) => KeyIndex(calls[i].domain) < li
    /\ pc = "raised" => ~ENABLED StartsCall

\* C22, as stated: each domain causes at most one resolver call and at most
\* two fetches, of different URLs.
C22_OneResolverCallPerDomain ==
    /\ \A d \in Range(domains) : Cardinality(C22_Resolves(d)) <= 1
    /\ C22_FetchesOnce

\* C22, amended: no retries.  The resolver is called at most once for each
\* entry of the domain list (twice for a domain listed twice); each domain
\* has at most two fetches, the page that is no PDP and the PDP adopted from
\* it, so no URL is fetched twice for a domain; and a failed fetch ends the
\* work of its domain, or the whole call, with no further fetch for it.
C22_NoRetries ==
    /\ [](/\ DomainsOf(SelectSeq(calls, IsResolve))
                = SubSeq(domains, 1, Len(SelectSeq(calls, IsResolve)))
          /\ C22_FetchesOnce
          /\ C22_DomainsClosed)
    /\ [][ C22_FetchFailed => (pc' = "raised" \/ (pc' = "loop" /\ li' = li + 1)) ]_vars

\* A call is over in which one domain had two fetches and the fetch of the
\* other failed with 404.
C22_Witness ==
    /\ pc = "done"
    /\ Len(result.details) = 2
    /\ result.details[2].status = "http_404"
    /\ Cardinality(C22_Fetches(result.details[1].domain)) = 2
    /\ Cardinality(C22_Fetches(result.details[2].domain)) = 1

\* The number an offer price denotes, written as a number or as a string.
C23_Number(p) == IF p.t = "str" THEN IntOf(p.s) ELSE p.n

\* The offer prices of the node passed to _jsonld_offers_price.
C23_Prices == [i \in 1..Len(arg.ld[1].offers) |-> arg.ld[1].offers[i].price]

\* C23, as stated: for a product node with several offers, all priced by
\* numbers or all by numeric strings, the price extracted denotes the least
\* of the numbers the offer prices denote.
C23_NumericMinimum ==
    (/\ ret # <<>>
     /\ Len(C23_Prices) >= 2
     /\ \/ \A i \in 1..Len(C23_Prices) : C23_Prices[i].t = "str"
        \/ \A i \in 1..Len(C23_Prices) : C23_Prices[i].t = "int")
        => /\ ret[1].exc = "none"
           /\ \A i \in 1..Len(C23_Prices) :
                  C23_Number(ret[1].price_value) <= C23_Number(C23_Prices[i])

\* The path segments and the query keys the search and listing check of the
\* claim names.
C24_ListingSegments ==
    {"search", "s", "catalog", "browse", "category", "collections", "results",
     "product-reviews"}
C24_ListingKeys == {"q", "query", "search"}

\* The URL passed is not one the claim's search and listing check rejects.
C24_NotListing ==
    /\ arg # NoUrl
    /\ \A i \in 1..Len(arg.path) : arg.path[i] \notin C24_ListingSegments
    /\ \A i \in 1..Len(arg.keys) : arg.keys[i] \notin C24_ListingKeys

\* C24, as stated: a URL the search and listing check does not reject is
\* decided by the path-shape rule alone: on an amazon host, true exactly when
\* the path has a /dp/ or /gp/product/ segment; on a host with no domain
\* rule, true exactly when some segment is purely numeric.
C24_PathShapeAlone ==
    (ret # <<>> /\ C24_NotListing) =>
        /\ HostHas(arg.host, "amazon")
              => (ret[1] <=> (\/ SegFollowed(arg.path, "dp")
                              \/ PairFollowed(arg.path, "gp", "product")))
        /\ arg.host = <<"example", "com">>
              => (ret[1] <=> \E i \in 1..Len(arg.path) : arg.path[i] \in NumericSegments)


\* C25: once update_single_product_lowest has returned ok, the currentPrice
\* stored is the lowest of the prices found in the call, and the
\* lastLowestPrice stored is the currentPrice the row held before the call,
\* or the new price when it held none.
C25_LowestAndPrevious ==
    (u_pc = "returned" /\ u_ret[1].status = "ok") =>
        /\ \E i \in 1..Len(u_found) :
              /\ db[u_pid].currentPrice = u_found[i].price
              /\ \A j \in 1..Len(u_found) :
                    j # i => FGe(u_found[j].price, u_found[i].price)
        /\ db[u_pid].lastLowestPrice =
              IF u_log[Len(u_log)].before.currentPrice = None
              THEN db[u_pid].currentPrice
              ELSE u_log[Len(u_log)].before.currentPrice


\* C26: a query that validate_query accepted has the floor of the iPhone 15:
\* once the domains are resolved and the loop over them runs, min_floor is
\* 30000 and never None.
C26_AcceptedHasFloor ==
    pc = "loop" => min_floor = Num(IPHONE15_FLOOR)


\* C27: when preview_lowest_by_name returns ok, the product_name returned is
\* the name extracted from the page of the selected domain.
C27_NameOfWinner ==
    (HasReturned /\ result.status = "ok") =>
        \E k \in 1..Len(extracted) :
            /\ extracted[k].domain = result.selected_domain
            /\ extracted[k].name = result.product_name


\* C28: in a result that passed validation the details and the selection
\* agree: the details with status ok are the candidates, in their order; the
\* status is ok exactly when some detail is ok; and the selected domain then
\* has an ok detail with the price and the URL returned, no other ok detail
\* being cheaper.
C28_OkDetails == SelectSeq(result.details, LAMBDA d : d.status = "ok")

C28_DiagnosticsAgree ==
    (HasReturned /\ result.status \notin Rejections) =>
        /\ [k \in 1..Len(C28_OkDetails) |->
               [domain |-> C28_OkDetails[k].domain, price |-> C28_OkDetails[k].price,
                link |-> C28_OkDetails[k].url]] = found
        /\ (result.status = "ok") <=> (C28_OkDetails # <<>>)
        /\ result.status = "ok" =>
              \E k \in 1..Len(C28_OkDetails) :
                 /\ C28_OkDetails[k].domain = result.selected_domain
                 /\ C28_OkDetails[k].price = result.currentPrice
                 /\ C28_OkDetails[k].url = result.deepLink
                 /\ \A j \in 1..Len(C28_OkDetails) :
                       j # k => FGe(C28_OkDetails[j].price, C28_OkDetails[k].price)


\* C29: a price update that finds no offer leaves the stored product as it
\* was. While update_single_product_lowest runs the table changes only in
\* the step that returns ok; no step of refresh_all_products_lowest_prices
\* changes the row of a product listed in failed; and the counts returned
\* add up, updated_count + len(failed) being the number of products, each
\* failed product being listed once.
C29_UpdateFrame ==
    (u_pc \in {"resolve", "loop"} /\ db' # db)
        => (u_pc' = "returned" /\ u_ret'[1].status = "ok")

C29_RefreshFrame ==
    r_pc = "loop" =>
        \A k \in 1..Len(failed') : db'[failed'[k].pid] = db[failed'[k].pid]

C29_Counted ==
    r_pc = "returned" =>
        /\ updated + Len(failed) = Len(products)
        /\ Len(products) = Len(db)
        /\ \A j, k \in 1..Len(failed) : failed[j].pid = failed[k].pid => j = k

C29_FailedUpdateChangesNothing ==
    /\ [](C29_Counted)
    /\ [][C29_UpdateFrame /\ C29_RefreshFrame]_vars

\* update_single_product_lowest has returned no_price_any_domain for a
\* product that holds prices, and a later refresh has listed it as failed.
C29_Witness ==
    /\ u_pc = "returned"
    /\ u_ret[1].status = "no_price_any_domain"
    /\ u_details # <<>>
    /\ db[u_pid].currentPrice # None
    /\ r_pc = "returned"
    /\ \E k \in 1..Len(failed) : failed[k].pid = u_pid


====
